---- MODULE Spec2Model ----
(***************************************************************************)
(* Model of batdroid's UI-hierarchy core (hierarchy.ts): the capture       *)
(* orchestrator getUiHierarchy, the structural parser parseUiAutomatorXml  *)
(* with extractAttr and parseBounds, the query engine findElements and the *)
(* renderers formatCompactTree and flattenHierarchy.                       *)
(*                                                                         *)
(* A JavaScript string is modelled as a sequence of one-character strings, *)
(* so that every regular expression, slice, split and trim of the source   *)
(* is computed character by character as the engine computes it.  Nodes    *)
(* live in a heap (a sequence of records); a node reference is its index   *)
(* in the heap, which reproduces the aliasing between the parser's stack   *)
(* and the children arrays.                                                *)
(***************************************************************************)
EXTENDS Integers, Sequences, FiniteSets, Bags, TLC

VARIABLES
    inp,       \* ghost: how the device output was composed (tokens, trailer)
    raw,       \* stdout of the dump command (what adb() resolves with)
    xml,       \* xmlContent: the cleaned text handed to the parser
    pos,       \* tagRegex.lastIndex + 1 (0 while the parser has not started)
    stack,     \* parser stack of open nodes (heap indices)
    elements,  \* top-level forest (heap indices)
    heap,      \* the UiElement objects created so far
    pc,        \* position of the getUiHierarchy call
    out,       \* result of the last operation on the forest, or the error
    cmds,      \* the commands the handler has issued so far, in order
    req,       \* the request being served: its tool and arguments
    session    \* the requests received, and the handlers that are suspended

\* All variables but session are the locals of one handler: the one that is
\* running or that ran last. The handlers that wait at an await for a
\* command to complete are kept in session.suspended.
vars ==
    <<inp, raw, xml, pos, stack, elements, heap, pc, out, cmds, req, session>>

----------------------------------------------------------------------------
(* Bounds of the model *)

MaxTokens == 4      \* node tokens in an enumerated document
MaxAttrs  == 2      \* attributes in an enumerated tag
MaxK      == 2      \* largest explicit max_depth argument
MaxCoord  == 3      \* largest one-digit coordinate of an enumerated rectangle
MaxIndex  == 3      \* largest index argument of a tap_element request
MaxRequests == 2    \* number of requests a session serves
MaxFrames == 1      \* frame files that a recording yields

----------------------------------------------------------------------------
(* Strings as character sequences *)

\* A character is a string of length one; a code unit that has no escape in
\* a string literal is written as the name of its code point.

\* the characters of \s in a regular expression, which are also the ones
\* that trim() removes: white space and line terminators
WS ==
    { " ", "\t", "\n", "\r", "\f", "U+000B", "U+00A0", "U+1680", "U+2000",
      "U+2001", "U+2002", "U+2003", "U+2004", "U+2005", "U+2006", "U+2007",
      "U+2008", "U+2009", "U+200A", "U+2028", "U+2029", "U+202F", "U+205F",
      "U+3000", "U+FEFF" }

\* the characters that . in a regular expression does not match
LineTerminator == {"\n", "\r", "U+2028", "U+2029"}

Digit == {"0", "1", "2", "3", "4", "5", "6", "7", "8", "9"}

DigitVal(c) ==
    CASE c = "0" -> 0 [] c = "1" -> 1 [] c = "2" -> 2 [] c = "3" -> 3
      [] c = "4" -> 4 [] c = "5" -> 5 [] c = "6" -> 6 [] c = "7" -> 7
      [] c = "8" -> 8 [] c = "9" -> 9

DigitChar(d) ==
    CASE d = 0 -> "0" [] d = 1 -> "1" [] d = 2 -> "2" [] d = 3 -> "3"
      [] d = 4 -> "4" [] d = 5 -> "5" [] d = 6 -> "6" [] d = 7 -> "7"
      [] d = 8 -> "8" [] d = 9 -> "9"

\* s.startsWith(lit, i - 1): lit occurs in s at (1-based) index i
StartsAt(s, i, lit) ==
    /\ i >= 1
    /\ i + Len(lit) - 1 <= Len(s)
    /\ \A k \in 1..Len(lit) : s[i + k - 1] = lit[k]

\* the least element of a set of positive indices, 0 for the empty set: the
\* leftmost place at which a scan succeeds
FirstOf(S) == IF S = {} THEN 0 ELSE CHOOSE x \in S : \A y \in S : x <= y

\* the greatest element of a set of positive indices, 0 for the empty set
LastOf(S) == 0 - FirstOf({ 0 - x : x \in S })

\* s.indexOf(lit, i - 1) + 1: first index >= i where lit occurs, 0 if none
IndexFrom(s, i, lit) ==
    IF \E j \in i..(Len(s) - Len(lit) + 1) : StartsAt(s, j, lit)
    THEN CHOOSE j \in i..(Len(s) - Len(lit) + 1) :
           /\ StartsAt(s, j, lit)
           /\ \A k \in i..(j - 1) : ~StartsAt(s, k, lit)
    ELSE 0

\* s.includes(lit)
Includes(s, lit) == IndexFrom(s, 1, lit) # 0

\* s.lastIndexOf(lit) + 1 searched downwards from index i, 0 if none
LastIndexOf(s, i, lit) == LastOf({ j \in 1..i : StartsAt(s, j, lit) })

\* s.slice(a, b) for 0 <= a, b (0-based, end exclusive)
Slice(s, a, b) ==
    LET e == IF b > Len(s) THEN Len(s) ELSE b
    IN  IF a >= e THEN <<>> ELSE SubSeq(s, a + 1, e)

\* s.slice(a)
SliceFrom(s, a) == Slice(s, a, Len(s))

\* first index >= i of s that is not white space (Len(s) + 1 if none)
SkipWs(s, i) ==
    IF \E j \in i..Len(s) : s[j] \notin WS
    THEN CHOOSE j \in i..Len(s) :
           s[j] \notin WS /\ \A k \in i..(j - 1) : s[k] \in WS
    ELSE IF i > Len(s) THEN i ELSE Len(s) + 1

\* last index <= i of s that is not white space (0 if none)
SkipWsBack(s, i) ==
    IF \E j \in 1..i : s[j] \notin WS
    THEN CHOOSE j \in 1..i :
           s[j] \notin WS /\ \A k \in (j + 1)..i : s[k] \in WS
    ELSE 0

\* s.trim()
Trim(s) ==
    LET a == SkipWs(s, 1)
        b == SkipWsBack(s, Len(s))
    IN  IF a > b THEN <<>> ELSE SubSeq(s, a, b)

RECURSIVE Repeat(_, _)
\* s.repeat(n)
Repeat(s, n) == IF n <= 0 THEN <<>> ELSE s \o Repeat(s, n - 1)

RECURSIVE Join(_, _)
\* parts.join(sep)
Join(parts, sep) ==
    IF parts = <<>> THEN <<>>
    ELSE IF Len(parts) = 1 THEN parts[1]
    ELSE parts[1] \o sep \o Join(Tail(parts), sep)

----------------------------------------------------------------------------
(* Numbers. A JavaScript number that is an integer is kept as its sign and *)
(* the decimal digits of its magnitude, so that it is not limited to the   *)
(* integers of the checker; Infinity and NaN are numbers too. Arithmetic   *)
(* is exact arithmetic followed by the rounding of a double (53 bits of    *)
(* mantissa, ties to even, overflow to Infinity). -0 is kept as 0: the two *)
(* print alike.                                                            *)

Num(neg, mag) == [kind |-> "int", neg |-> neg, mag |-> mag]

Infinity(neg) == [kind |-> "inf", neg |-> neg, mag |-> <<>>]

NaN == [kind |-> "nan", neg |-> FALSE, mag |-> <<>>]

RECURSIVE NatToStr(_)
\* the decimal digits of a natural number of the checker
NatToStr(n) ==
    IF n < 10 THEN <<DigitChar(n)>>
    ELSE NatToStr(n \div 10) \o <<DigitChar(n % 10)>>

\* the number that an integer of the checker denotes
NumOf(n) == IF n < 0 THEN Num(TRUE, NatToStr(0 - n)) ELSE Num(FALSE, NatToStr(n))

Zero == Num(FALSE, <<"0">>)

One == Num(FALSE, <<"1">>)

\* digits without their leading zeros
StripZeros(d) ==
    LET k == FirstOf({ i \in 1..Len(d) : d[i] # "0" })
    IN  IF k = 0 THEN <<"0">> ELSE SubSeq(d, k, Len(d))

\* a < b for magnitudes without leading zeros
MagLess(a, b) ==
    IF Len(a) # Len(b) THEN Len(a) < Len(b)
    ELSE LET k == FirstOf({ i \in 1..Len(a) : a[i] # b[i] })
         IN  IF k = 0 THEN FALSE ELSE DigitVal(a[k]) < DigitVal(b[k])

\* the digit of a that stands i places from its right end, 0 beyond a
DigitFromRight(a, i) == IF i < Len(a) THEN DigitVal(a[Len(a) - i]) ELSE 0

\* the carry into place i of a + b: some lower place j overflows by itself
\* and every place between j and i passes a carry on
CarryInto(a, b, i) ==
    \E j \in 0..(i - 1) :
      /\ DigitFromRight(a, j) + DigitFromRight(b, j) >= 10
      /\ \A k \in (j + 1)..(i - 1) :
           DigitFromRight(a, k) + DigitFromRight(b, k) = 9

\* a + b for magnitudes
MagAdd(a, b) ==
    LET n == (IF Len(a) > Len(b) THEN Len(a) ELSE Len(b)) + 1
    IN  StripZeros(SubSeq([p \in 1..n |->
          DigitChar((DigitFromRight(a, n - p) + DigitFromRight(b, n - p)
                      + (IF CarryInto(a, b, n - p) THEN 1 ELSE 0)) % 10)],
          1, n))

\* the borrow from place i of a - b: some lower place j is short by itself
\* and every place between j and i passes the borrow on
BorrowFrom(a, b, i) ==
    \E j \in 0..(i - 1) :
      /\ DigitFromRight(a, j) < DigitFromRight(b, j)
      /\ \A k \in (j + 1)..(i - 1) :
           DigitFromRight(a, k) = DigitFromRight(b, k)

\* a - b for magnitudes with b <= a
MagSub(a, b) ==
    StripZeros(SubSeq([p \in 1..Len(a) |->
      DigitChar((10 + DigitFromRight(a, Len(a) - p)
                  - DigitFromRight(b, Len(a) - p)
                  - (IF BorrowFrom(a, b, Len(a) - p) THEN 1 ELSE 0)) % 10)],
      1, Len(a)))

\* floor(a / 2) for a magnitude: long division, the remainder carried into a
\* place being the parity of the digit before it
MagHalve(a) ==
    StripZeros(SubSeq([p \in 1..Len(a) |->
      DigitChar((10 * (IF p = 1 THEN 0 ELSE DigitVal(a[p - 1]) % 2)
                  + DigitVal(a[p])) \div 2)], 1, Len(a)))

MagOdd(a) == DigitVal(a[Len(a)]) % 2 = 1

RECURSIVE Doublings(_, _)
\* a * 2^k
Doublings(a, k) ==
    IF k = 0 THEN a
    ELSE CHOOSE r \in { Doublings(d, k - 1) : d \in { MagAdd(a, a) } } : TRUE

\* 2^53
Two53 ==
    <<"9", "0", "0", "7", "1", "9", "9", "2", "5", "4", "7", "4", "0", "9",
      "9", "2">>

\* the largest exponent e for which m * 2^e, m < 2^53, is a finite double
MaxExp == 971

RECURSIVE RoundLoop(_, _, _, _)
\* the mantissa and exponent of the double nearest to a magnitude: m is
\* halved until it is below 2^53, guard being the last bit shifted out and
\* sticky whether any bit before it was 1; a tie goes to the even mantissa
RoundLoop(m, e, guard, sticky) ==
    IF MagLess(m, Two53) \/ (e = 0 /\ m = Two53)
    THEN [mant |-> IF guard /\ (sticky \/ MagOdd(m))
                   THEN MagAdd(m, <<"1">>) ELSE m,
          exp |-> e]
    ELSE CHOOSE r \in { RoundLoop(h, e + 1, g, st) :
                          h \in { MagHalve(m) }, g \in { MagOdd(m) },
                          st \in { sticky \/ guard } } : TRUE

\* mant * 2^exp as a number, Infinity if it is beyond the doubles
Scaled(neg, r, exp) ==
    IF exp > MaxExp \/ (exp = MaxExp /\ r.mant = Two53) THEN Infinity(neg)
    ELSE LET mag == Doublings(r.mant, exp)
         IN  Num(neg /\ mag # <<"0">>, mag)

\* the double nearest to the integer with this sign and magnitude
ToDouble(neg, mag) ==
    \* CHOOSE over a singleton: the loop is evaluated once
    CHOOSE v \in { Scaled(neg, r, r.exp) :
                     r \in { RoundLoop(mag, 0, FALSE, FALSE) } } : TRUE

\* the exact sum of two integers
ExactAdd(a, b) ==
    IF a.neg = b.neg THEN Num(a.neg, MagAdd(a.mag, b.mag))
    ELSE IF a.mag = b.mag THEN Zero
    ELSE IF MagLess(a.mag, b.mag) THEN Num(b.neg, MagSub(b.mag, a.mag))
    ELSE Num(a.neg, MagSub(a.mag, b.mag))

Negate(a) == [a EXCEPT !.neg = (~a.neg /\ a.mag # <<"0">>)]

\* the exact difference of two integers
ExactSub(a, b) == ExactAdd(a, Negate(b))

\* a < b for two integers
NumLess(a, b) ==
    IF a.neg # b.neg THEN a.neg
    ELSE IF a.neg THEN MagLess(b.mag, a.mag)
    ELSE MagLess(a.mag, b.mag)

\* floor(a / 2) for an integer
FloorHalf(a) ==
    IF a.neg /\ MagOdd(a.mag) THEN Num(TRUE, MagAdd(MagHalve(a.mag), <<"1">>))
    ELSE Num(a.neg /\ MagHalve(a.mag) # <<"0">>, MagHalve(a.mag))

\* a - b of two numbers
NumSub(a, b) ==
    IF a.kind = "nan" \/ b.kind = "nan" THEN NaN
    ELSE IF a.kind = "inf"
    THEN IF b.kind = "inf" /\ a.neg = b.neg THEN NaN ELSE a
    ELSE IF b.kind = "inf" THEN Infinity(~b.neg)
    ELSE CHOOSE v \in { ToDouble(d.neg, d.mag) : d \in { ExactSub(a, b) } } :
           TRUE

\* digits without their trailing zeros
StripTrailingZeros(d) ==
    LET k == LastOf({ i \in 1..Len(d) : d[i] # "0" })
    IN  IF k = 0 THEN <<"0">> ELSE SubSeq(d, 1, k)

Zeros(n) == SubSeq([i \in 1..n |-> "0"], 1, n)

\* the double nearest to the magnitude d is mag
RoundsTo(d, mag) == ToDouble(FALSE, d).mag = mag

\* the first n digits of mag, and the magnitude one unit of the n-th digit
\* above them
Truncations(mag, n) ==
    { <<lo, MagAdd(lo, <<"1">> \o Zeros(Len(mag) - n))>> :
        lo \in { SubSeq(mag, 1, n) \o Zeros(Len(mag) - n) } }

RECURSIVE ShortestFrom(_, _)
\* the magnitude with the fewest significant digits, n or more, whose
\* nearest double is mag; of two with as many digits the nearer one
ShortestFrom(mag, n) ==
    IF n >= Len(mag) THEN mag
    ELSE CHOOSE s \in
           { IF ok[1] /\ ok[2]
             THEN IF MagLess(MagSub(t[2], mag), MagSub(mag, t[1]))
                  THEN t[2] ELSE t[1]
             ELSE IF ok[1] THEN t[1]
             ELSE IF ok[2] THEN t[2]
             ELSE ShortestFrom(mag, n + 1) :
               <<t, ok>> \in { <<t, SubSeq([k \in 1..2 |-> RoundsTo(t[k], mag)],
                                          1, 2)>> :
                                 t \in Truncations(mag, n) } } : TRUE

\* d.ddde+N for the digits of a magnitude of 22 digits or more
Exponential(digits) ==
    LET s == StripTrailingZeros(digits)
    IN  <<s[1]>>
          \o (IF Len(s) > 1 THEN <<".">> \o SubSeq(s, 2, Len(s)) ELSE <<>>)
          \o <<"e", "+">> \o NatToStr(Len(digits) - 1)

\* String(n) / `${n}` for a number that is an integer, Infinity or NaN: the
\* fewest digits that read back as the same double, followed by zeros below
\* 10^21 and in exponent form from there on. Below 2^53 every integer is a
\* double of its own, so that the fewest digits are its own digits.
NumToStr(n) ==
    IF n.kind = "nan" THEN <<"N", "a", "N">>
    ELSE (IF n.neg THEN <<"-">> ELSE <<>>)
           \o (IF n.kind = "inf"
               THEN <<"I", "n", "f", "i", "n", "i", "t", "y">>
               ELSE IF MagLess(n.mag, Two53) THEN n.mag
               ELSE CHOOSE t \in
                      { IF Len(n.mag) <= 21 THEN s ELSE Exponential(s) :
                          s \in { ShortestFrom(n.mag, 1) } } : TRUE)

\* index just after the maximal run of digits of s that starts at i
DigitsEnd(s, i) ==
    LET j0 == FirstOf({ j \in i..Len(s) : s[j] \notin Digit })
    IN  IF j0 # 0 THEN j0 ELSE IF i > Len(s) THEN i ELSE Len(s) + 1

\* parseInt(s, 10) for a non-empty string of digits
ParseInt(s) == ToDouble(FALSE, StripZeros(s))

----------------------------------------------------------------------------
(* Literals of the source *)

LtNode      == <<"<", "n", "o", "d", "e">>
CloseNode   == <<"<", "/", "n", "o", "d", "e", ">">>
LtHierarchy == <<"<", "h", "i", "e", "r", "a", "r", "c", "h", "y">>
EqQuote     == <<"=", "\"">>

nResourceId  == <<"r", "e", "s", "o", "u", "r", "c", "e", "-", "i", "d">>
nText        == <<"t", "e", "x", "t">>
nContentDesc == <<"c", "o", "n", "t", "e", "n", "t", "-", "d", "e", "s", "c">>
nClass       == <<"c", "l", "a", "s", "s">>
nPackage     == <<"p", "a", "c", "k", "a", "g", "e">>
nBounds      == <<"b", "o", "u", "n", "d", "s">>
nClickable   == <<"c", "l", "i", "c", "k", "a", "b", "l", "e">>
nEnabled     == <<"e", "n", "a", "b", "l", "e", "d">>
nScrollable  == <<"s", "c", "r", "o", "l", "l", "a", "b", "l", "e">>
sTrue        == <<"t", "r", "u", "e">>

----------------------------------------------------------------------------
(* Bounds codec *)

ZeroRect == [x |-> Zero, y |-> Zero, width |-> Zero, height |-> Zero]

\* an attempt that does not ask for the final "]"
BoundsMatchAtOpenEnd(s, i) ==
    LET a1 == i + 1
        a2 == DigitsEnd(s, a1)
        b1 == a2 + 1
        b2 == DigitsEnd(s, b1)
        c1 == b2 + 2
        c2 == DigitsEnd(s, c1)
        d1 == c2 + 1
        d2 == DigitsEnd(s, d1)
    IN  IF /\ StartsAt(s, i, <<"[">>)
           /\ a2 > a1 /\ StartsAt(s, a2, <<",">>)
           /\ b2 > b1 /\ StartsAt(s, b2, <<"]", "[">>)
           /\ c2 > c1 /\ StartsAt(s, c2, <<",">>)
           /\ d2 > d1
        THEN << SubSeq(s, a1, a2 - 1), SubSeq(s, b1, b2 - 1),
                SubSeq(s, c1, c2 - 1), SubSeq(s, d1, d2 - 1) >>
        ELSE <<>>

\* One attempt of /\[(\d+),(\d+)\]\[(\d+),(\d+)\]/ at index i: the four
\* digit runs when the pattern matches there, <<>> otherwise.
BoundsMatchAt(s, i) ==
    LET a1 == i + 1
        a2 == DigitsEnd(s, a1)
        b1 == a2 + 1
        b2 == DigitsEnd(s, b1)
        c1 == b2 + 2
        c2 == DigitsEnd(s, c1)
        d1 == c2 + 1
        d2 == DigitsEnd(s, d1)
    IN  IF /\ StartsAt(s, i, <<"[">>)
           /\ a2 > a1 /\ StartsAt(s, a2, <<",">>)
           /\ b2 > b1 /\ StartsAt(s, b2, <<"]", "[">>)
           /\ c2 > c1 /\ StartsAt(s, c2, <<",">>)
           /\ d2 > d1 /\ StartsAt(s, d2, <<"]">>)
        THEN << SubSeq(s, a1, a2 - 1), SubSeq(s, b1, b2 - 1),
                SubSeq(s, c1, c2 - 1), SubSeq(s, d1, d2 - 1) >>
        ELSE <<>>

\* boundsStr.match(...): the groups of the leftmost match, <<>> if none
BoundsMatch(s, i) ==
    LET j0 == FirstOf({ j \in i..Len(s) : BoundsMatchAt(s, j) # <<>> })
    IN  IF j0 = 0 THEN <<>> ELSE BoundsMatchAt(s, j0)

\* a decoder that clamps the size of an inverted rectangle to 0
parseBoundsClamped(boundsStr) ==
    LET match == BoundsMatch(boundsStr, 1)
    IN  IF match = <<>> THEN ZeroRect
        ELSE LET left   == ParseInt(match[1])
                 top    == ParseInt(match[2])
                 right  == ParseInt(match[3])
                 bottom == ParseInt(match[4])
             IN  [x |-> left, y |-> top,
                  width  |-> IF NumSub(right, left).neg THEN Zero
                             ELSE NumSub(right, left),
                  height |-> IF NumSub(bottom, top).neg THEN Zero
                             ELSE NumSub(bottom, top)]

parseBounds(boundsStr) ==
    LET match == BoundsMatch(boundsStr, 1)
    IN  IF match = <<>> THEN ZeroRect
        ELSE LET left   == ParseInt(match[1])
                 top    == ParseInt(match[2])
                 right  == ParseInt(match[3])
                 bottom == ParseInt(match[4])
             IN  [x |-> left, y |-> top,
                  width  |-> NumSub(right, left),
                  height |-> NumSub(bottom, top)]

----------------------------------------------------------------------------
(* Attribute extraction *)

\* One attempt of new RegExp(`${name}="([^"]*)"`) at index i: <<value>>
\* when name=" stands there and a closing quote follows, <<>> otherwise.
AttrMatchAt(attrs, name, i) ==
    LET lit == name \o EqQuote
        v   == i + Len(lit)
        q   == IndexFrom(attrs, v, <<"\"">>)
    IN  IF StartsAt(attrs, i, lit) /\ q # 0
        THEN << SubSeq(attrs, v, q - 1) >>
        ELSE <<>>

\* attrs.match(regex) scanned from index i: the leftmost match
AttrMatch(attrs, name, i) ==
    LET j0 == FirstOf({ j \in i..Len(attrs) :
                            AttrMatchAt(attrs, name, j) # <<>> })
    IN  IF j0 = 0 THEN <<>> ELSE AttrMatchAt(attrs, name, j0)

extractAttr(attrs, name) ==
    LET match == AttrMatch(attrs, name, 1)
    IN  IF match # <<>> THEN match[1] ELSE <<>>

\* the object literal of parseUiAutomatorXml
MakeElement(attrs) ==
    [ resource_id  |-> extractAttr(attrs, nResourceId),
      text         |-> extractAttr(attrs, nText),
      content_desc |-> extractAttr(attrs, nContentDesc),
      class        |-> extractAttr(attrs, nClass),
      package      |-> extractAttr(attrs, nPackage),
      bounds       |-> parseBounds(extractAttr(attrs, nBounds)),
      clickable    |-> extractAttr(attrs, nClickable) = sTrue,
      enabled      |-> extractAttr(attrs, nEnabled) = sTrue,
      scrollable   |-> extractAttr(attrs, nScrollable) = sTrue,
      children     |-> <<>> ]

----------------------------------------------------------------------------
(* The tag scanner: /<node\s+([^>]*?)\s*\/?>|<\/node>/g *)

NoMatch == [found |-> FALSE]

\* One attempt of the first alternative at index i.  "<node", at least one
\* white-space character, then everything up to the first ">".  The greedy
\* \s+ takes the whole leading white space, the lazy group stops as early
\* as the rest \s*\/?> allows: it loses a final "/" and the white space
\* before it.
OpenMatchAt(s, i) ==
    IF /\ StartsAt(s, i, LtNode)
       /\ i + 5 <= Len(s)
       /\ s[i + 5] \in WS
    THEN CHOOSE m \in
           { IF gt = 0 THEN NoMatch
             ELSE LET e0 == IF s[gt - 1] = "/" /\ gt - 1 >= a
                            THEN gt - 2 ELSE gt - 1
                  IN  [ found |-> TRUE, closing |-> FALSE,
                        attrs |->
                          CHOOSE attrs \in
                            { IF e < a THEN <<>> ELSE SubSeq(s, a, e) :
                                e \in { SkipWsBack(s, e0) } } : TRUE,
                        selfClosing |-> s[gt - 1] = "/",
                        next  |-> gt + 1 ] :
               gt \in { IndexFrom(s, i + 6, <<">">>) },
               a \in { SkipWs(s, i + 5) } } : TRUE
    ELSE NoMatch

CloseMatchAt(s, i) ==
    IF StartsAt(s, i, CloseNode)
    THEN [ found |-> TRUE, closing |-> TRUE, attrs |-> <<>>,
           selfClosing |-> FALSE, next |-> i + Len(CloseNode) ]
    ELSE NoMatch

\* One attempt of the whole pattern at index i: the first alternative,
\* then the second
TagMatchAt(s, i) ==
    LET m == OpenMatchAt(s, i)
    IN  IF m.found THEN m ELSE CloseMatchAt(s, i)

\* tagRegex.exec(xml) with lastIndex = i - 1: the leftmost match of either
\* alternative at or after index i
TagExec(s, i) ==
    IF \E j \in i..Len(s) : TagMatchAt(s, j).found
    THEN TagMatchAt(s, CHOOSE j \in i..Len(s) :
                         /\ TagMatchAt(s, j).found
                         /\ \A k \in i..(j - 1) : ~TagMatchAt(s, k).found)
    ELSE NoMatch

----------------------------------------------------------------------------
(* Structural parser *)

ParserInit == [pos |-> 1, stack |-> <<>>, elements |-> <<>>, heap |-> <<>>]

\* a parser that attaches to the outermost open node, stack[0]
StackBottom(st) == st[1]

\* stack[stack.length - 1]
StackTop(st) == st[Len(st)]

\* stack.pop(): on an empty array it returns undefined and changes nothing
Pop(st) == IF st = <<>> THEN <<>> ELSE SubSeq(st, 1, Len(st) - 1)

\* if (stack.length > 0) parent.children.push(element): the heap after the
\* new element id has been created and linked
LinkChild(hp, st, element) ==
    LET id == Len(hp) + 1
        h1 == Append(hp, element)
    IN  IF Len(st) > 0
        THEN [h1 EXCEPT ![StackTop(st)].children = Append(@, id)]
        ELSE h1

\* a parser that pushes every node to the top level, without the else
LinkRootAlways(els, st, id) == Append(els, id)

\* else elements.push(element)
LinkRoot(els, st, id) == IF Len(st) > 0 THEN els ELSE Append(els, id)

\* if (!isSelfClosing) stack.push(element)
PushOpen(st, id, isSelfClosing) ==
    IF ~isSelfClosing THEN Append(st, id) ELSE st

\* a parser that gives up the forest built so far on a stray closing tag
CloseTokenDiscard(ps, m) ==
    IF ps.stack = <<>>
    THEN [pos |-> m.next, stack |-> <<>>, elements |-> <<>>, heap |-> <<>>]
    ELSE [ps EXCEPT !.pos = m.next, !.stack = Pop(ps.stack)]

\* the closing-tag branch of the loop
CloseToken(ps, m) == [ps EXCEPT !.pos = m.next, !.stack = Pop(ps.stack)]

\* the opening / self-closing branch of the loop
OpenToken(ps, m) ==
    LET element == MakeElement(m.attrs)
        id      == Len(ps.heap) + 1
    IN  [ pos      |-> m.next,
          heap     |-> LinkChild(ps.heap, ps.stack, element),
          elements |-> LinkRoot(ps.elements, ps.stack, id),
          stack    |-> PushOpen(ps.stack, id, m.selfClosing) ]

\* one iteration of the while loop for the match m
LoopBody(ps, m) == IF m.closing THEN CloseToken(ps, m) ELSE OpenToken(ps, m)

RECURSIVE ParseLoop(_, _)
ParseLoop(s, ps) ==
    CHOOSE end \in { IF ~m.found THEN ps ELSE ParseLoop(s, LoopBody(ps, m)) :
                       m \in { TagExec(s, ps.pos) } } : TRUE

\* the forest (root ids and heap) parseUiAutomatorXml returns for a text
parseUiAutomatorXml(s) ==
    LET ps == ParseLoop(s, ParserInit)
    IN  [elements |-> ps.elements, heap |-> ps.heap]

----------------------------------------------------------------------------
(* Capture orchestrator *)

TrailerHead ==
    <<"U", "I", " ", "h", "i", "e", "r", "a", "r", "c">>
TrailerTail ==
    <<"y", " ", "d", "u", "m", "p", "e", "d", " ", "t", "o", ":">>
ErrPrefix ==
    <<"U", "I", "A", "u", "t", "o", "m", "a", "t", "o", "r", " ", "d",
       "u", "m", "p", " ", "r", "e", "t", "u", "r", "n", "e", "d", " ",
       "u", "n", "e", "x", "p", "e", "c", "t", "e", "d", " ", "o", "u",
       "t", "p", "u", "t", ":", " ">>

ErrSliceLen == 200

\* Canonicalize of the /i flag: the upper-case form of a character
Upper(c) ==
    CASE c = "a" -> "A" [] c = "c" -> "C" [] c = "d" -> "D" [] c = "e" -> "E"
      [] c = "h" -> "H" [] c = "i" -> "I" [] c = "m" -> "M" [] c = "o" -> "O"
      [] c = "p" -> "P" [] c = "r" -> "R" [] c = "t" -> "T" [] c = "u" -> "U"
      [] c = "y" -> "Y" [] OTHER -> c

StartsAtFold(s, i, lit) ==
    /\ i >= 1
    /\ i + Len(lit) - 1 <= Len(s)
    /\ \A k \in 1..Len(lit) : Upper(s[i + k - 1]) = Upper(lit[k])

\* "UI hierarch?y dumped to:" at index i: the index after it, 0 if absent
TrailerLitEnd(s, i) ==
    LET j == i + Len(TrailerHead)
    IN  IF ~StartsAtFold(s, i, TrailerHead) THEN 0
        ELSE IF StartsAtFold(s, j, <<"h">>) /\ StartsAtFold(s, j + 1, TrailerTail)
             THEN j + 1 + Len(TrailerTail)
        ELSE IF StartsAtFold(s, j, TrailerTail)
             THEN j + Len(TrailerTail)
        ELSE 0

\* .*$ from index j: no line terminator up to the end of the string
DotStarToEnd(s, j) == \A k \in j..Len(s) : s[k] \notin LineTerminator

\* One attempt of the whole pattern at index j
TrailerMatchAt(s, j) ==
    LET e == TrailerLitEnd(s, j)
    IN  e # 0 /\ DotStarToEnd(s, e)

\* start of the leftmost match of /UI hierarch?y dumped to:.*$/i, 0 if none
TrailerIndex(s, i) ==
    FirstOf({ j \in i..Len(s) : TrailerMatchAt(s, j) })

\* xml.replace(/UI hierarch?y dumped to:.*$/i, "")
StripTrailer(s) ==
    LET i == TrailerIndex(s, 1)
    IN  IF i = 0 THEN s ELSE SubSeq(s, 1, i - 1)

\* xmlContent
CleanDump(s) == Trim(StripTrailer(s))

\* an envelope test that wants the marker at the start of the text
HasEnvelopeAtStart(xmlContent) == StartsAt(xmlContent, 1, LtHierarchy)

\* the envelope test of getUiHierarchy
HasEnvelope(xmlContent) == Includes(xmlContent, LtHierarchy)

UnexpectedOutput(xmlContent) ==
    [ kind |-> "error", name |-> "unexpected output",
      message |-> ErrPrefix \o Slice(xmlContent, 0, ErrSliceLen) ]

----------------------------------------------------------------------------
(* Tree query engine *)

RECURSIVE Split(_, _)
\* s.split(sep) for a one-character separator
Split(s, sep) ==
    LET i == IndexFrom(s, 1, sep)
    IN  IF i = 0 THEN <<s>>
        ELSE <<SubSeq(s, 1, i - 1)>> \o Split(SubSeq(s, i + 1, Len(s)), sep)

\* array.pop()! of a non-empty array
Last(a) == a[Len(a)]

\* an id part taken after the first "/", split("/")[1]
IdPartAfterFirst(resource_id) ==
    IF Includes(resource_id, <<"/">>)
    THEN Split(resource_id, <<"/">>)[2]
    ELSE resource_id

\* the id part after the "/" (findElements and formatCompactTree)
IdPart(resource_id) ==
    IF Includes(resource_id, <<"/">>)
    THEN Last(Split(resource_id, <<"/">>))
    ELSE resource_id

\* A selector field is <<>> when undefined and <<value>> when given.
Matches(el, selector) ==
    LET m1 == IF selector.resource_id # <<>>
              THEN \/ el.resource_id = selector.resource_id[1]
                   \/ IdPart(el.resource_id) = selector.resource_id[1]
              ELSE TRUE
        m2 == IF selector.text # <<>>
              THEN m1 /\ el.text = selector.text[1]
              ELSE m1
        m3 == IF selector.content_desc # <<>>
              THEN m2 /\ el.content_desc = selector.content_desc[1]
              ELSE m2
    IN  m3

RECURSIVE FindWalkExclusive(_, _, _, _)
\* a walk that does not descend below a node that matched
FindWalkExclusive(hp, els, selector, results) ==
    IF els = <<>> THEN results
    ELSE LET el == Head(els)
             r2 == IF Matches(hp[el], selector)
                   THEN Append(results, el)
                   ELSE FindWalkExclusive(hp, hp[el].children, selector,
                                          results)
         IN  FindWalkExclusive(hp, Tail(els), selector, r2)

RECURSIVE FindWalk(_, _, _, _)
\* walk(elements) of findElements, results being the array pushed to
FindWalk(hp, els, selector, results) ==
    IF els = <<>> THEN results
    ELSE LET el == Head(els)
             r1 == IF Matches(hp[el], selector)
                   THEN Append(results, el) ELSE results
             r2 == FindWalk(hp, hp[el].children, selector, r1)
         IN  FindWalk(hp, Tail(els), selector, r2)

findElements(hp, roots, selector) == FindWalk(hp, roots, selector, <<>>)

----------------------------------------------------------------------------
(* Tree renderers *)

pWidget ==
    <<"a", "n", "d", "r", "o", "i", "d", ".", "w", "i", "d", "g", "e",
      "t", ".">>
pView ==
    <<"a", "n", "d", "r", "o", "i", "d", ".", "v", "i", "e", "w", ".">>
pWebkit ==
    <<"a", "n", "d", "r", "o", "i", "d", ".", "w", "e", "b", "k", "i",
      "t", ".">>
pAndroidx ==
    <<"a", "n", "d", "r", "o", "i", "d", "x", ".">>
tClickable ==
    <<"[", "c", "l", "i", "c", "k", "a", "b", "l", "e", "]">>
tScrollable ==
    <<"[", "s", "c", "r", "o", "l", "l", "a", "b", "l", "e", "]">>

DefaultCompactDepth == 15
DefaultFlattenDepth == 20

shortenClassName(cls) ==
    IF StartsAt(cls, 1, pWidget) THEN SliceFrom(cls, Len(pWidget))
    ELSE IF StartsAt(cls, 1, pView) THEN SliceFrom(cls, Len(pView))
    ELSE IF StartsAt(cls, 1, pWebkit) THEN SliceFrom(cls, Len(pWebkit))
    ELSE IF StartsAt(cls, 1, pAndroidx)
         THEN LET lastDot == LastIndexOf(cls, Len(cls), <<".">>) - 1
              IN  IF lastDot # -1 THEN SliceFrom(cls, lastDot + 1) ELSE cls
    ELSE cls

\* the parts array of one node and its joined line
CompactLine(el, depth) ==
    LET indent == Repeat(<<" ", " ">>, depth)
        b  == el.bounds
        parts ==
          << shortenClassName(el.class) >>
            \o (IF el.text # <<>>
                THEN << <<"\"">> \o el.text \o <<"\"">> >> ELSE <<>>)
            \o << <<"[">> \o NumToStr(b.x) \o <<",">> \o NumToStr(b.y)
                    \o <<" ">> \o NumToStr(b.width) \o <<"x">>
                    \o NumToStr(b.height) \o <<"]">> >>
            \o (IF el.resource_id # <<>>
                THEN << <<"i", "d", ":">> \o IdPart(el.resource_id) >>
                ELSE <<>>)
            \o (IF el.content_desc # <<>>
                THEN << <<"d", "e", "s", "c", ":", "\"">>
                          \o el.content_desc \o <<"\"">> >>
                ELSE <<>>)
            \o (IF el.clickable THEN <<tClickable>> ELSE <<>>)
            \o (IF el.scrollable THEN <<tScrollable>> ELSE <<>>)
    IN  indent \o Join(parts, <<" ">>)

\* a limit test that is off by one, depth >= maxDepth
BeyondLimitOffByOne(depth, maxDepth) == depth >= maxDepth

\* if (depth > maxDepth) return
BeyondLimit(depth, maxDepth) == depth > maxDepth

\* a recursion that forgets to increase the depth
ChildDepthSame(depth) == depth

\* walk(el.children, depth + 1)
ChildDepth(depth) == depth + 1

RECURSIVE CompactWalk(_, _, _, _, _)
\* walk(elements, depth) of formatCompactTree, lines being the array
CompactWalk(hp, els, depth, maxDepth, lines) ==
    IF BeyondLimit(depth, maxDepth) \/ els = <<>> THEN lines
    ELSE LET el == Head(els)
             l1 == Append(lines, CompactLine(hp[el], depth))
             l2 == CompactWalk(hp, hp[el].children, ChildDepth(depth),
                               maxDepth, l1)
         IN  CompactWalk(hp, Tail(els), depth, maxDepth, l2)

\* A max-depth argument is <<>> when omitted and <<k>> when given.
formatCompactTree(hp, roots, maxDepthArg) ==
    LET maxDepth == IF maxDepthArg = <<>> THEN DefaultCompactDepth
                    ELSE maxDepthArg[1]
    IN  Join(CompactWalk(hp, roots, 0, maxDepth, <<>>), <<"\n">>)

\* { ...el, depth, children: [] }
FlatRecord(el, depth) ==
    [ resource_id  |-> el.resource_id,
      text         |-> el.text,
      content_desc |-> el.content_desc,
      class        |-> el.class,
      package      |-> el.package,
      bounds       |-> el.bounds,
      clickable    |-> el.clickable,
      enabled      |-> el.enabled,
      scrollable   |-> el.scrollable,
      depth        |-> depth,
      children     |-> <<>> ]

RECURSIVE FlatWalk(_, _, _, _, _)
\* walk(elements, depth) of flattenHierarchy, result being the array
FlatWalk(hp, els, depth, maxDepth, result) ==
    IF BeyondLimit(depth, maxDepth) \/ els = <<>> THEN result
    ELSE LET el == Head(els)
             r1 == Append(result, FlatRecord(hp[el], depth))
             r2 == FlatWalk(hp, hp[el].children, ChildDepth(depth),
                            maxDepth, r1)
         IN  FlatWalk(hp, Tail(els), depth, maxDepth, r2)

flattenHierarchy(hp, roots, maxDepthArg) ==
    LET maxDepth == IF maxDepthArg = <<>> THEN DefaultFlattenDepth
                    ELSE maxDepthArg[1]
    IN  FlatWalk(hp, roots, 0, maxDepth, <<>>)

----------------------------------------------------------------------------
(* Device output: how the texts the dump command can print are composed.   *)
(* A token is [kind, attrs] with kind "open", "self" or "close" and attrs  *)
(* a sequence of <<name, value>> pairs; it is written the way uiautomator  *)
(* writes it.                                                              *)

vTrue ==
    <<"t", "r", "u", "e">>
vUpperTrue ==
    <<"T", "R", "U", "E">>
vOne ==
    <<"1">>
vFalse ==
    <<"f", "a", "l", "s", "e">>
nLongClickable ==
    <<"l", "o", "n", "g", "-", "c", "l", "i", "c", "k", "a", "b", "l", "e">>
vIdFull ==
    <<"c", "o", "m", ".", "a", "p", "p", ":", "i", "d", "/", "x">>
vIdX ==
    <<"x">>
vIdXX ==
    <<"x", "x">>
vIdFullXX ==
    <<"c", "o", "m", ".", "a", "p", "p", ":", "i", "d", "/", "x", "x">>
vIdTwo ==
    <<"a", "/", "b", "/", "x">>
vIdSlash ==
    <<"p", "/">>
vIdShort ==
    <<"p", "/", "x">>
vA ==
    <<"a">>
vD ==
    <<"d">>
vPkg ==
    <<"c", "o", "m", ".", "a", "p", "p">>
vButton ==
    <<"a", "n", "d", "r", "o", "i", "d", ".", "w", "i", "d", "g", "e",
      "t", ".", "B", "u", "t", "t", "o", "n">>
vFrame ==
    <<"a", "n", "d", "r", "o", "i", "d", ".", "w", "i", "d", "g", "e",
      "t", ".", "F", "r", "a", "m", "e", "L", "a", "y", "o", "u", "t">>
vRect ==
    <<"[", "0", ",", "5", "0", "]", "[", "1", "0", "8", "0", ",", "1",
      "5", "0", "]">>
sOpenHierarchy ==
    <<"<", "h", "i", "e", "r", "a", "r", "c", "h", "y", " ", "r", "o",
      "t", "a", "t", "i", "o", "n", "=", "\"", "0", "\"", ">">>
sCloseHierarchy ==
    <<"<", "/", "h", "i", "e", "r", "a", "r", "c", "h", "y", ">">>
sJunk ==
    <<"e", "r", "r", "o", "r", ":", " ", "d", "e", "v", "i", "c", "e",
      " ", "o", "f", "f", "l", "i", "n", "e">>
trGood ==
    <<"U", "I", " ", "h", "i", "e", "r", "a", "r", "c", "h", "y", " ",
      "d", "u", "m", "p", "e", "d", " ", "t", "o", ":", " ", "/", "d",
      "e", "v", "/", "t", "t", "y">>
trDevice ==
    <<"U", "I", " ", "h", "i", "e", "r", "c", "h", "a", "r", "y", " ",
      "d", "u", "m", "p", "e", "d", " ", "t", "o", ":", " ", "/", "d",
      "e", "v", "/", "t", "t", "y">>
trUpper ==
    <<"u", "i", " ", "H", "I", "E", "R", "A", "R", "C", "H", "Y", " ",
      "D", "U", "M", "P", "E", "D", " ", "T", "O", ":", " ", "/", "d",
      "e", "v", "/", "t", "t", "y">>
trShort ==
    <<"U", "I", " ", "h", "i", "e", "r", "a", "r", "c", "y", " ", "d",
      "u", "m", "p", "e", "d", " ", "t", "o", ":", " ", "/", "d", "e",
      "v", "/", "t", "t", "y">>
trMarker ==
    <<"U", "I", " ", "h", "i", "e", "r", "a", "r", "c", "h", "y", " ",
      "d", "u", "m", "p", "e", "d", " ", "t", "o", ":", " ", "<", "h",
      "i", "e", "r", "a", "r", "c", "h", "y">>

RenderAttr(a) == a[1] \o EqQuote \o a[2] \o <<"\"">>

RenderAttrs(attrs, sep) ==
    Join([i \in 1..Len(attrs) |-> RenderAttr(attrs[i])], <<sep>>)

\* the text of a tag, its parts separated by the token's white space
RenderToken(t) ==
    CASE t.kind = "open"  -> LtNode \o <<t.sep>> \o RenderAttrs(t.attrs, t.sep)
                                    \o <<">">>
      [] t.kind = "self"  -> LtNode \o <<t.sep>> \o RenderAttrs(t.attrs, t.sep)
                                    \o <<t.sep, "/", ">">>
      [] t.kind = "close" -> CloseNode

RECURSIVE RenderTokens(_)
RenderTokens(toks) ==
    IF toks = <<>> THEN <<>>
    ELSE RenderToken(Head(toks)) \o RenderTokens(Tail(toks))

Tok(kind, attrs) == [kind |-> kind, attrs |-> attrs, sep |-> " "]

AttrsA == << <<nResourceId, vIdShort>>, <<nText, vA>> >>
AttrsB == << <<nResourceId, vIdX>>, <<nContentDesc, vD>>,
             <<nClickable, vTrue>> >>

\* a tag written with form feeds for spaces
TokFormFeed == [Tok("self", AttrsA) EXCEPT !.sep = "\f"]

\* tokens of the enumerated documents
DocTokens ==
    { Tok("open", AttrsA), Tok("self", AttrsA), Tok("self", AttrsB),
      Tok("close", <<>>) }

SeqsUpTo(S, n) == UNION { [1..k -> S] : k \in 0..n }

\* attributes of the enumerated tags
AttrPieces ==
    { <<nClickable, vTrue>>, <<nClickable, vUpperTrue>>, <<nClickable, vOne>>,
      <<nClickable, <<>> >>, <<nClickable, vFalse>>,
      <<nLongClickable, vTrue>>,
      <<nEnabled, vTrue>>, <<nScrollable, vTrue>>,
      <<nText, vA>>, <<nContentDesc, vD>>, <<nPackage, vPkg>>,
      <<nClass, vButton>>, <<nBounds, vRect>>,
      <<nResourceId, vIdFull>>, <<nResourceId, vIdX>>, <<nResourceId, vIdXX>>,
      <<nResourceId, vIdFullXX>>, <<nResourceId, vIdTwo>>,
      <<nResourceId, vIdSlash>> }

\* the order in which the dump tool writes the attributes of a tag
AttrOrder ==
    << nText, nResourceId, nClass, nPackage, nContentDesc, nClickable,
       nEnabled, nScrollable, nLongClickable, nBounds >>

AttrPosition(name) == CHOOSE i \in 1..Len(AttrOrder) : AttrOrder[i] = name

\* attribute lists in the tool's order, no name twice (well-formed tags)
AttrLists ==
    { al \in SeqsUpTo(AttrPieces, MaxAttrs) :
        \A i, j \in 1..Len(al) :
          i < j => AttrPosition(al[i][1]) < AttrPosition(al[j][1]) }

\* a chain of n nested, unterminated-free nodes: n opening and n closing tags
Chain(n) ==
    [i \in 1..(2 * n) |->
        IF i <= n THEN Tok("open", AttrsA) ELSE Tok("close", <<>>)]

DeepChain == Chain(DefaultFlattenDepth + 2)

Pad(n) == [i \in 1..n |-> "x"]

NoTrailer == [kind |-> "none", text |-> <<>>]

\* lead: white space before the text; pre and post: what the text has before
\* and after its node tags; trailer and tail: what follows the text
Input(family, toks, lead, pre, post, trailer, tail) ==
    [ family |-> family, toks |-> toks, lead |-> lead, pre |-> pre,
      post |-> post, trailer |-> trailer, tail |-> tail ]

\* documents that differ in nesting
StructureInputs ==
    { Input("structure", toks, <<>>, sOpenHierarchy, sCloseHierarchy,
            [kind |-> "hierarchy", text |-> trGood], <<>>) :
        toks \in SeqsUpTo(DocTokens, MaxTokens) \cup {DeepChain} }

\* documents that differ in the attributes of a tag, which they have once
\* as an opening and once as a self-closing tag
AttributeTokens(al) ==
    << Tok("open", al), Tok("self", al), Tok("close", <<>>) >>

AttributeInputs ==
    { Input("attributes", AttributeTokens(al), <<>>, sOpenHierarchy,
            sCloseHierarchy, NoTrailer, <<>>) : al \in AttrLists }

\* texts that differ in what surrounds the document
\* <<pre, toks, post>>
EnvelopeBodies ==
    LET one == << Tok("self", AttrsA) >>
    IN  { << <<>>, <<>>, <<>> >>,
          << sOpenHierarchy, one, sCloseHierarchy >>,
          << sOpenHierarchy, << TokFormFeed >>, sCloseHierarchy >>,
          << <<>>, one, <<>> >>,
          << sJunk, <<>>, <<>> >>,
          << Pad(ErrSliceLen - 1), <<>>, <<>> >>,
          << Pad(ErrSliceLen), <<>>, <<>> >>,
          << Pad(ErrSliceLen + 1), <<>>, <<>> >>,
          << Pad(ErrSliceLen) \o sOpenHierarchy, one, sCloseHierarchy >> }

Trailers ==
    { NoTrailer,
      [kind |-> "hierarchy", text |-> trGood],
      [kind |-> "hierchary", text |-> trDevice],
      [kind |-> "hierarchy", text |-> trUpper],
      [kind |-> "hierarcy",  text |-> trShort],
      [kind |-> "hierarchy", text |-> trMarker] }

\* white space before the text
Leads == { <<>>, <<"\n", "\f", "U+00A0", " ">> }

\* what follows the trailer: nothing, or a line terminator
Tails == { <<>>, <<"\n">>, <<"U+2028">> }

EnvelopeInputs ==
    { Input("envelope", b[2], lead, b[1], b[3], tr, tail) :
        b \in EnvelopeBodies, lead \in Leads, tr \in Trailers,
        tail \in Tails }

Inputs == StructureInputs \cup AttributeInputs \cup EnvelopeInputs

\* what the dump command prints for an input
DeviceOutput(i) ==
    i.lead \o i.pre \o RenderTokens(i.toks) \o i.post \o i.trailer.text \o i.tail

Selectors ==
    [ resource_id : { <<>>, <<vIdX>> },
      text : { <<>>, <<vA>> },
      content_desc : { <<>>, <<vD>> } ]

DepthArgs == { <<>> } \cup { <<k>> : k \in 0..MaxK }

NoResult == [kind |-> "none"]

\* adb(["exec-out", "uiautomator", "dump", "/dev/tty"]), by its name
DumpCommand == [name |-> "dump"]

\* a getUiHierarchy call whose caller is left open: whichever handler it is
\* applies one operation to the forest returned
CoreRequest == [tool |-> "core"]

\* one request and no handler suspended
NoSession == [count |-> 1, suspended |-> EmptyBag]

----------------------------------------------------------------------------
(* The state machine: one getUiHierarchy call and the one operation the   *)
(* calling tool handler then applies to the forest it returned.            *)

Init ==
    /\ inp \in Inputs
    /\ raw = DeviceOutput(inp)
    /\ xml = <<>>
    /\ pos = 0
    /\ stack = <<>>
    /\ elements = <<>>
    /\ heap = <<>>
    /\ pc = "call"
    /\ out = NoResult
    /\ cmds = <<>>
    /\ req = CoreRequest
    /\ session = NoSession

\* the tools whose handler calls getUiHierarchy
DumpTools == {"core", "get_ui_hierarchy", "tap_element"}

\* getUiHierarchy is called: adb() starts the dump command and the call is
\* suspended at its await
IssueDump ==
    /\ pc = "call"
    /\ req.tool \in DumpTools
    /\ cmds' = Append(cmds, DumpCommand)
    /\ pc' = "await"
    /\ UNCHANGED <<inp, raw, xml, pos, stack, elements, heap, out, req,
                   session>>

\* adb() rejects (command failure or timeout): the await throws
AdbReject ==
    /\ pc = "await"
    /\ pc' = "error"
    /\ out' = [kind |-> "error", name |-> "adb failed", message |-> <<>>]
    /\ UNCHANGED <<inp, raw, xml, pos, stack, elements, heap, cmds, req,
                   session>>

\* adb() resolves with stdout: clean it, and throw unless it has the envelope
DumpUnexpected ==
    /\ pc = "await"
    /\ \E xmlContent \in { CleanDump(raw) } :
         /\ ~HasEnvelope(xmlContent)
         /\ xml' = xmlContent
         /\ out' = UnexpectedOutput(xmlContent)
    /\ pc' = "error"
    /\ UNCHANGED <<inp, raw, pos, stack, elements, heap, cmds, req, session>>

\* adb() resolves with stdout that has the envelope: enter the parser
DumpAccepted ==
    /\ pc = "await"
    /\ \E xmlContent \in { CleanDump(raw) } :
         /\ HasEnvelope(xmlContent)
         /\ xml' = xmlContent
    /\ pc' = "scan"
    /\ pos' = ParserInit.pos
    /\ stack' = ParserInit.stack
    /\ elements' = ParserInit.elements
    /\ heap' = ParserInit.heap
    /\ UNCHANGED <<inp, raw, out, cmds, req, session>>

ParserState == [pos |-> pos, stack |-> stack, elements |-> elements,
                heap |-> heap]

\* a loop iteration on a closing tag
ParseClose ==
    /\ pc = "scan"
    /\ \E m \in { TagExec(xml, pos) } :
         /\ m.found /\ m.closing
         /\ \E ps \in { CloseToken(ParserState, m) } :
              /\ pos' = ps.pos
              /\ stack' = ps.stack
              /\ elements' = ps.elements
              /\ heap' = ps.heap
    /\ UNCHANGED <<inp, raw, xml, pc, out, cmds, req,
                   session>>

\* a loop iteration on an opening or self-closing tag
ParseOpen ==
    /\ pc = "scan"
    /\ \E m \in { TagExec(xml, pos) } :
         /\ m.found /\ ~m.closing
         /\ \E ps \in { OpenToken(ParserState, m) } :
              /\ pos' = ps.pos
              /\ stack' = ps.stack
              /\ elements' = ps.elements
              /\ heap' = ps.heap
    /\ UNCHANGED <<inp, raw, xml, pc, out, cmds, req,
                   session>>

\* exec() returns null: the loop ends and the forest is returned
ParseReturn ==
    /\ pc = "scan"
    /\ ~TagExec(xml, pos).found
    /\ pc' = "done"
    /\ UNCHANGED <<inp, raw, xml, pos, stack, elements, heap, out, cmds, req,
                   session>>

FindElements ==
    /\ pc = "done"
    /\ \E selector \in Selectors :
         out' = [kind |-> "find", arg |-> selector,
                 value |-> findElements(heap, elements, selector)]
    /\ pc' = "found"
    /\ UNCHANGED <<inp, raw, xml, pos, stack, elements, heap, cmds, req,
                   session>>

FlattenHierarchy ==
    /\ pc = "done"
    /\ \E d \in DepthArgs :
         out' = [kind |-> "flatten", arg |-> d,
                 value |-> flattenHierarchy(heap, elements, d)]
    /\ pc' = "flattened"
    /\ UNCHANGED <<inp, raw, xml, pos, stack, elements, heap, cmds, req,
                   session>>

FormatCompactTree ==
    /\ pc = "done"
    /\ \E d \in DepthArgs :
         out' = [kind |-> "format", arg |-> d,
                 value |-> formatCompactTree(heap, elements, d)]
    /\ pc' = "formatted"
    /\ UNCHANGED <<inp, raw, xml, pos, stack, elements, heap, cmds, req,
                   session>>

Next ==
    \/ IssueDump
    \/ AdbReject
    \/ DumpUnexpected
    \/ DumpAccepted
    \/ ParseClose
    \/ ParseOpen
    \/ ParseReturn
    \/ FindElements
    \/ FlattenHierarchy
    \/ FormatCompactTree

Spec == Init /\ [][Next]_vars

----------------------------------------------------------------------------
(* Reference notions, stated on the composition of the input (inp) and on  *)
(* the shape of the heap, independently of the parser's stack and of the   *)
(* recursive walks.                                                        *)

Toks == inp.toks

IsNodeTok(t) == t.kind # "close"

\* number of opening / self-closing tokens among the first k tokens: the
\* node the k-th token creates is the NodeIdx(k)-th node created
NodeIdx(k) == Cardinality({ j \in 1..k : IsNodeTok(Toks[j]) })

\* index in xml of the last character of the k-th token
TokEnd(k) == Len(inp.pre) + Len(RenderTokens(SubSeq(Toks, 1, k)))

\* number of tokens the scanner has gone past
Consumed == Cardinality({ k \in 1..Len(Toks) : TokEnd(k) < pos })

RECURSIVE RefLevel(_)
\* nesting level after the first k tokens; a closing tag at level 0 is stray
RefLevel(k) ==
    IF k = 0 THEN 0
    ELSE LET d == RefLevel(k - 1)
         IN  CASE Toks[k].kind = "open"  -> d + 1
               [] Toks[k].kind = "self"  -> d
               [] Toks[k].kind = "close" -> IF d > 0 THEN d - 1 ELSE 0

\* token j opened a node that no closing token among j+1..k has closed
StillOpen(j, k) ==
    /\ Toks[j].kind = "open"
    /\ \A m \in j..k : RefLevel(m) >= RefLevel(j)

\* the nodes open after the first k tokens, outermost first
RefOpen(k) ==
    LET IsOpen(j) == StillOpen(j, k)
        idx == SelectSeq([j \in 1..k |-> j], IsOpen)
    IN  [i \in 1..Len(idx) |-> NodeIdx(idx[i])]

\* the innermost node open when token k is scanned, 0 if there is none
RefParent(k) ==
    LET open == RefOpen(k - 1)
    IN  IF open = <<>> THEN 0 ELSE open[Len(open)]

\* the tokens nest properly: no stray closing tag, nothing left open
Balanced ==
    /\ \A k \in 1..Len(Toks) : Toks[k].kind = "close" => RefLevel(k - 1) > 0
    /\ RefLevel(Len(Toks)) = 0

Nodes == 1..Len(heap)

\* the nodes whose children array holds n
HeapParents(n) ==
    { q \in Nodes : \E i \in 1..Len(heap[q].children) : heap[q].children[i] = n }

IsRoot(n) == \E i \in 1..Len(elements) : elements[i] = n

\* how often n occurs in the forest, as a root or as a child
Occurrences(n) ==
    Cardinality({ i \in 1..Len(elements) : elements[i] = n })
    + Cardinality({ qi \in Nodes \X (1..Len(heap)) :
                      /\ qi[2] <= Len(heap[qi[1]].children)
                      /\ heap[qi[1]].children[qi[2]] = n })

RECURSIVE AncestorsOf(_, _)
\* the nodes above n, following parents for at most fuel steps
AncestorsOf(n, fuel) ==
    IF fuel = 0 \/ HeapParents(n) = {} THEN {}
    ELSE LET q == CHOOSE q \in HeapParents(n) : TRUE
         IN  {q} \cup AncestorsOf(q, fuel - 1)

Ancestors(n) == AncestorsOf(n, Len(heap))

\* nesting depth of n (roots = 0)
TrueDepth(n) == Cardinality(Ancestors(n))

Ascending(q) == \A i, j \in 1..Len(q) : i < j => q[i] < q[j]

Parsing == pc \in {"scan", "done", "found", "flattened", "formatted"}

Returned == pc \in {"done", "found", "flattened", "formatted"}

----------------------------------------------------------------------------
(* Claims *)

\* C1: each opening or self-closing token scanned so far has created a node
\* that was appended as the last child of the innermost node open when it
\* was scanned (the nearest earlier opening token not yet closed), or as the
\* last root if none was open; exactly the nodes of unclosed opening tokens
\* are open; hence parent/child and sibling order follow the document.
C1_NestingFollowsDocument ==
    Parsing =>
      LET k == Consumed
      IN  /\ Len(heap) = NodeIdx(k)
          /\ stack = RefOpen(k)
          /\ \A j \in 1..k : IsNodeTok(Toks[j]) =>
               LET n == NodeIdx(j)
                   q == RefParent(j)
               IN  IF q = 0
                   THEN IsRoot(n) /\ HeapParents(n) = {}
                   ELSE HeapParents(n) = {q} /\ ~IsRoot(n)
          /\ Ascending(elements)
          /\ \A n \in Nodes : Ascending(heap[n].children)

\* C1 witness: a balanced document was parsed in which an open node received
\* a second child after its first
C1_Witness ==
    /\ pc = "done"
    /\ Balanced
    /\ stack = <<>>
    /\ \E n \in Nodes : Len(heap[n].children) >= 2

\* the scanner is at a closing token while no node is open
AtStrayClose ==
    /\ pc = "scan"
    /\ Consumed < Len(Toks)
    /\ Toks[Consumed + 1].kind = "close"
    /\ stack = <<>>

\* C3: a closing token met while no node is open changes neither the forest
\* nor the stack and the scan goes on with the next token; the parser never
\* ends in an error, and at its end every token has been scanned and every
\* node token has its node.
C3_StrayCloseIgnored ==
    /\ [][ AtStrayClose =>
             /\ pc' = "scan"
             /\ stack' = <<>>
             /\ elements' = elements
             /\ heap' = heap
             /\ Consumed' = Consumed + 1 ]_vars
    /\ [](pc = "error" => pos = 0 /\ heap = <<>>)
    /\ [](pc = "done" => /\ Consumed = Len(Toks)
                         /\ Len(heap) = NodeIdx(Len(Toks)))

\* C3 witness: parsing ended normally on a document in which a stray closing
\* tag came after one node and before another, both at top level
C3_Witness ==
    /\ pc = "done"
    /\ \E k \in 2..(Len(Toks) - 1) :
         /\ Toks[k].kind = "close"
         /\ RefLevel(k - 1) = 0
         /\ IsNodeTok(Toks[k - 1])
         /\ IsNodeTok(Toks[k + 1])
         /\ IsRoot(NodeIdx(k + 1))

\* C4: in the returned forest every node token has exactly one node, each
\* node occurs exactly once (as a root or as a child of one parent), and
\* every node created after a node that was never closed is its descendant.
C4_EveryNodeOnce ==
    Returned =>
      /\ Len(heap) = NodeIdx(Len(Toks))
      /\ \A n \in Nodes : Occurrences(n) = 1
      /\ \A i \in 1..Len(stack) : \A m \in Nodes :
           m > stack[i] => stack[i] \in Ancestors(m)

\* C4 witness: parsing ended with a node left open that has a descendant
\* two levels below it
C4_Witness ==
    /\ pc = "done"
    /\ stack # <<>>
    /\ \E m \in Nodes : stack[1] \in Ancestors(m) /\ TrueDepth(m) >= 2


\* the token that created node n
TokOfNode(n) ==
    CHOOSE j \in 1..Len(Toks) : IsNodeTok(Toks[j]) /\ NodeIdx(j) = n

\* the tag's attribute list has an attribute of exactly this name
Carries(al, name) == \E i \in 1..Len(al) : al[i][1] = name

CarriesValue(al, name, v) == \E i \in 1..Len(al) : al[i] = <<name, v>>

\* C2: a field whose attribute the tag does not carry is "" (strings), and
\* a flag is true exactly when the tag carries that attribute with the value
\* "true", whatever other attributes the tag carries.
C2_AttributeDefaults ==
    Parsing =>
      \A n \in Nodes :
        LET al == Toks[TokOfNode(n)].attrs
            el == heap[n]
        IN  /\ ~Carries(al, nResourceId)  => el.resource_id = <<>>
            /\ ~Carries(al, nText)        => el.text = <<>>
            /\ ~Carries(al, nContentDesc) => el.content_desc = <<>>
            /\ ~Carries(al, nClass)       => el.class = <<>>
            /\ ~Carries(al, nPackage)     => el.package = <<>>
            /\ el.clickable  <=> CarriesValue(al, nClickable, sTrue)
            /\ el.enabled    <=> CarriesValue(al, nEnabled, sTrue)
            /\ el.scrollable <=> CarriesValue(al, nScrollable, sTrue)

\* lit occurs somewhere in s
Contains(s, lit) ==
    \E i \in 0..Len(s) :
      /\ i + Len(lit) <= Len(s)
      /\ \A k \in 1..Len(lit) : s[i + k] = lit[k]

\* the first n characters of s, all of s when it is shorter
FirstChars(s, n) == [i \in 1..(IF Len(s) < n THEN Len(s) ELSE n) |-> s[i]]

\* the dump command has answered (the call did not fail in adb)
DumpReceived ==
    pc \notin {"call", "await"} /\ ~(pc = "error" /\ out.name = "adb failed")

\* C5: the call fails with the unexpected-output error exactly when the
\* cleaned text lacks "<hierarchy"; the message then contains the first 200
\* characters of the cleaned text and the parser has not run; otherwise the
\* forest returned is the one the parser builds from the cleaned text.
C5_EnvelopeCheck ==
    DumpReceived /\ pc \in {"error", "scan", "done"} =>
      \A cleaned \in { CleanDump(raw) } :
        IF Contains(cleaned, LtHierarchy)
        THEN /\ pc # "error"
             /\ xml = cleaned
             /\ pc = "done" =>
                  [elements |-> elements, heap |-> heap]
                    = parseUiAutomatorXml(cleaned)
        ELSE /\ pc = "error"
             /\ out.name = "unexpected output"
             /\ Contains(out.message, FirstChars(cleaned, 200))
             /\ pos = 0 /\ heap = <<>> /\ elements = <<>> /\ stack = <<>>

\* C5 witness: the call failed on a cleaned text longer than 200 characters,
\* of which the message holds the first 200 and not the 201st
C5_Witness ==
    /\ pc = "error"
    /\ out.name = "unexpected output"
    /\ Len(CleanDump(raw)) > 200
    /\ Len(out.message) = Len(ErrPrefix) + 200

\* C6: when the raw text ends with the confirmation trailer, in either
\* spelling, the cleaned text is the text before the trailer, trimmed.
C6_TrailerRemoved ==
    ( /\ DumpReceived
      /\ inp.trailer.kind \in {"hierarchy", "hierchary"}
      /\ inp.tail = <<>> )
    => xml = Trim(inp.lead \o inp.pre \o RenderTokens(Toks) \o inp.post)

----------------------------------------------------------------------------
(* Pre-order and matching, stated on paths *)

\* position of n among its siblings
SiblingIndex(n) ==
    IF HeapParents(n) = {}
    THEN CHOOSE i \in 1..Len(elements) : elements[i] = n
    ELSE LET q == CHOOSE q \in HeapParents(n) : TRUE
         IN  CHOOSE i \in 1..Len(heap[q].children) : heap[q].children[i] = n

RECURSIVE PathOf(_)
\* the sibling indices from the root down to n
PathOf(n) ==
    IF HeapParents(n) = {} THEN << SiblingIndex(n) >>
    ELSE PathOf(CHOOSE q \in HeapParents(n) : TRUE) \o << SiblingIndex(n) >>

\* a is visited before b by a pre-order walk: a is above b, or a's branch
\* leaves the common path to the left of b's
PathBefore(a, b) ==
    LET short  == IF Len(a) < Len(b) THEN Len(a) ELSE Len(b)
        common == Cardinality({ i \in 1..short :
                                  SubSeq(a, 1, i) = SubSeq(b, 1, i) })
    IN  \/ common = Len(a) /\ Len(b) > Len(a)
        \/ common < short /\ a[common + 1] < b[common + 1]

\* the number of nodes a pre-order walk visits before each node, path being
\* the path of each node
RankOf(path) ==
    [n \in Nodes |->
       Cardinality({ m \in Nodes : PathBefore(path[m], path[n]) })]

\* the nodes in the order of their ranks
ByRank(rank) == [i \in 1..Len(heap) |-> CHOOSE n \in Nodes : rank[n] = i - 1]

\* all nodes of the forest in pre-order
PreOrderRef ==
    CHOOSE pre \in { ByRank(rank) :
                       rank \in { RankOf(path) :
                                    path \in { [n \in Nodes |-> PathOf(n)] } } } :
      TRUE

\* what follows the last "/" of s, all of s when it has none
AfterLastSlash(s) ==
    LET slashes == { i \in 1..Len(s) : s[i] = "/" }
        last    == CHOOSE i \in slashes : \A j \in slashes : j <= i
    IN  IF slashes = {} THEN s
        ELSE [i \in 1..(Len(s) - last) |-> s[last + i]]

IdMatchRef(el, v) == el.resource_id = v \/ AfterLastSlash(el.resource_id) = v

MatchRef(el, selector) ==
    /\ selector.resource_id # <<>> => IdMatchRef(el, selector.resource_id[1])
    /\ selector.text # <<>> => el.text = selector.text[1]
    /\ selector.content_desc # <<>> => el.content_desc = selector.content_desc[1]

InSeq(q, x) == \E i \in 1..Len(q) : q[i] = x

\* C7: findElements returns exactly the nodes that satisfy every present
\* selector field, in pre-order, descendants of matching nodes included.
C7_FindPreOrder ==
    pc = "found" =>
      LET pre == PreOrderRef
          Hit(n) == MatchRef(heap[n], out.arg)
      IN  out.value = SelectSeq(pre, Hit)

\* C7 witness: a search returned a node and, after it, one of its descendants
C7_Witness ==
    /\ pc = "found"
    /\ \E i, j \in 1..Len(out.value) :
         i < j /\ out.value[i] \in Ancestors(out.value[j])

\* C8: with a selector of resource_id alone, a node matches exactly when its
\* raw id equals the value or what follows its last "/" does; "x" matches
\* "com.app:id/x" and "x", and neither "xx" nor "com.app:id/xx".
C8_ResourceIdMatch ==
    ( /\ pc = "found"
      /\ out.arg.resource_id # <<>>
      /\ out.arg.text = <<>>
      /\ out.arg.content_desc = <<>> )
    => LET v == out.arg.resource_id[1]
       IN  /\ \A n \in Nodes :
                InSeq(out.value, n) <=> IdMatchRef(heap[n], v)
           /\ v = vIdX =>
                \A n \in Nodes :
                  /\ heap[n].resource_id \in {vIdFull, vIdX}
                       => InSeq(out.value, n)
                  /\ heap[n].resource_id \in {vIdXX, vIdFullXX}
                       => ~InSeq(out.value, n)

\* C8 witness: a search by resource_id "x" returned the nodes whose raw id
\* has two slashes before the x
C8_Witness ==
    /\ pc = "found"
    /\ out.arg = [resource_id |-> <<vIdX>>, text |-> <<>>, content_desc |-> <<>>]
    /\ \E n \in Nodes : heap[n].resource_id = vIdTwo
    /\ \A n \in Nodes : heap[n].resource_id = vIdTwo => InSeq(out.value, n)

\* the record flattening owes node n
FlatRef(n) ==
    [ resource_id  |-> heap[n].resource_id,
      text         |-> heap[n].text,
      content_desc |-> heap[n].content_desc,
      class        |-> heap[n].class,
      package      |-> heap[n].package,
      bounds       |-> heap[n].bounds,
      clickable    |-> heap[n].clickable,
      enabled      |-> heap[n].enabled,
      scrollable   |-> heap[n].scrollable,
      depth        |-> TrueDepth(n),
      children     |-> <<>> ]

\* one record per node, in pre-order, with the true depth, and the forest
\* still as the parser built it
FlattenedWhole ==
    /\ Len(out.value) = Len(heap)
    /\ \A pre \in { PreOrderRef } :
         \A i \in 1..Len(heap) : out.value[i] = FlatRef(pre[i])
    /\ [elements |-> elements, heap |-> heap] = parseUiAutomatorXml(xml)

\* the depth limit in force for a max-depth argument
LimitOf(arg, default) == IF arg = <<>> THEN default ELSE arg[1]

\* C9 as stated: flattenHierarchy applied to a forest (max depth left to its
\* default) yields one record per node.
C9_FlattenAllNodes ==
    pc = "flattened" /\ out.arg = <<>> => FlattenedWhole

\* C9 amended: when no node is nested deeper than the depth limit (default
\* 20), flattening yields one record per node, in pre-order, with the true
\* depth, the node's own fields and no children, and leaves the forest alone.
C9_FlattenWithinLimit ==
    ( /\ pc = "flattened"
      /\ \A n \in Nodes : TrueDepth(n) <= LimitOf(out.arg, 20) )
    => FlattenedWhole

\* C9 witness: a forest with a node at depth 2 was flattened whole
C9_Witness ==
    /\ pc = "flattened"
    /\ Len(out.value) = Len(heap)
    /\ \E i \in 1..Len(out.value) : out.value[i].depth = 2

\* the positions of the pre-order whose node is at depth <= k
KeptPositions(k) ==
    CHOOSE kept \in { SelectSeq([i \in 1..Len(heap) |-> i],
                                LAMBDA i : TrueDepth(pre[i]) <= k) :
                        pre \in { PreOrderRef } } : TRUE

\* C10: with max_depth = k both renderers emit exactly the unlimited output
\* restricted to the nodes of true depth <= k, in the same order and with
\* the same content.
C10_DepthLimit ==
    /\ pc = "flattened" =>
         LET kept == KeptPositions(LimitOf(out.arg, 20))
             all  == FlatWalk(heap, elements, 0, Len(heap), <<>>)
         IN  /\ Len(all) = Len(heap)
             /\ out.value = [i \in 1..Len(kept) |-> all[kept[i]]]
             /\ \A i \in 1..Len(out.value) :
                  out.value[i].depth <= LimitOf(out.arg, 20)
    /\ pc = "formatted" =>
         LET kept == KeptPositions(LimitOf(out.arg, 15))
             all  == CompactWalk(heap, elements, 0, Len(heap), <<>>)
         IN  /\ Len(all) = Len(heap)
             /\ out.value = Join([i \in 1..Len(kept) |-> all[kept[i]]],
                                 <<"\n">>)

\* C10 witness: a rendering with max_depth = 1 kept a node of depth 1 and
\* left out its children
C10_Witness ==
    /\ pc = "formatted"
    /\ out.arg = <<1>>
    /\ \E n \in Nodes : TrueDepth(n) = 1 /\ heap[n].children # <<>>

----------------------------------------------------------------------------
(* The compact line, stated field by field *)

RECURSIVE Concat(_)
\* the concatenation of a sequence of strings
Concat(ss) == IF ss = <<>> THEN <<>> ELSE Head(ss) \o Concat(Tail(ss))

Quoted(s) == <<"\"">> \o s \o <<"\"">>

\* [x,y wxh] in decimal
RectRef(b) ==
    <<"[">> \o NumToStr(b.x) \o <<",">> \o NumToStr(b.y) \o <<" ">>
      \o NumToStr(b.width) \o <<"x">> \o NumToStr(b.height) \o <<"]">>

\* the fields a line may have, in their fixed order, each with the condition
\* under which it is present
FieldsRef(el) ==
    << [on |-> TRUE, tok |-> shortenClassName(el.class)],
       [on |-> el.text # <<>>, tok |-> Quoted(el.text)],
       [on |-> TRUE, tok |-> RectRef(el.bounds)],
       [on |-> AfterLastSlash(el.resource_id) # <<>>,
        tok |-> <<"i", "d", ":">> \o AfterLastSlash(el.resource_id)],
       [on |-> el.content_desc # <<>>,
        tok |-> <<"d", "e", "s", "c", ":">> \o Quoted(el.content_desc)],
       [on |-> el.clickable, tok |-> tClickable],
       [on |-> el.scrollable, tok |-> tScrollable] >>

\* the line of node n: the indent, then the present fields, one space
\* between two of them
LineRef(n) ==
    LET present == SelectSeq(FieldsRef(heap[n]), LAMBDA f : f.on)
    IN  [i \in 1..(2 * TrueDepth(n)) |-> " "]
          \o Concat([i \in 1..Len(present) |->
                       IF i = 1 THEN present[i].tok
                       ELSE <<" ">> \o present[i].tok])

\* the lines of the nodes of depth <= k in pre-order, one per line
TreeRef(k) ==
    CHOOSE t \in { Concat([i \in 1..Len(kept) |->
                            IF i = 1 THEN LineRef(pre[kept[i]])
                            ELSE <<"\n">> \o LineRef(pre[kept[i]])]) :
                     kept \in { KeptPositions(k) }, pre \in { PreOrderRef } } :
      TRUE

\* C11: the compact rendering is one line per rendered node in pre-order,
\* each line being 2*depth spaces and the space-joined fields class, "text",
\* [x,y wxh], id:<short id>, desc:"<description>", [clickable], [scrollable],
\* where the optional ones appear only when non-empty (the id: when the
\* short resource id is non-empty) or true.
C11_CompactLineFormat ==
    pc = "formatted" => out.value = TreeRef(LimitOf(out.arg, 15))

\* C11 holds of every node whose resource id does not end in "/": where the
\* short id is empty only when the raw id is
C11_CompactLineFormatProperIds ==
    ( /\ pc = "formatted"
      /\ \A n \in Nodes :
           heap[n].resource_id = <<>>
             \/ AfterLastSlash(heap[n].resource_id) # <<>> )
    => out.value = TreeRef(LimitOf(out.arg, 15))

----------------------------------------------------------------------------
(* The bounds codec, applied by the parser to the bounds attribute of the  *)
(* first tag of a dump.                                                    *)

\* decimal numerals with the number each denotes: the one-digit ones and
\* some with more digits or with leading zeros
Numerals ==
    { [val |-> NumOf(v), str |-> <<DigitChar(v)>>] : v \in 0..MaxCoord }
      \cup { [val |-> NumOf(10),   str |-> <<"1", "0">>],
             [val |-> NumOf(7),    str |-> <<"0", "0", "7">>],
             [val |-> NumOf(1080), str |-> <<"1", "0", "8", "0">>] }

\* 2^31, 2^53, 2^53 + 1 and 10^23 - 1
n2e31 == <<"2", "1", "4", "7", "4", "8", "3", "6", "4", "8">>
n2e53p1 == SubSeq(Two53, 1, 15) \o <<"3">>
n1e23m1 == SubSeq([i \in 1..23 |-> "9"], 1, 23)

\* numerals of many digits: the last two denote integers that are not
\* doubles
LongNumerals ==
    { [val |-> Num(FALSE, t), str |-> t] :
        t \in { n2e31, Two53, n2e53p1, n1e23m1 } }

\* the text [a,b][c,d]
RectText(a, b, c, d) ==
    <<"[">> \o a \o <<",">> \o b \o <<"]", "[">> \o c \o <<",">> \o d
      \o <<"]">>

d1 == <<"1">>
d2 == <<"2">>
d3 == <<"3">>
d4 == <<"4">>

\* attribute values that are not of the form [a,b][c,d]; the last four
\* have a text of that form inside them
OtherBoundsTexts ==
    { <<>>,
      <<"g", "a", "r", "b", "a", "g", "e">>,
      <<"[", "1", ",", "2", "]">>,
      <<"[", "1", ",", "2", "]", "[", "3", ",", "4">>,
      <<"[", "1", ",", "2", "]", " ", "[", "3", ",", "4", "]">>,
      <<"[", "1", ",", " ", "2", "]", "[", "3", ",", "4", "]">>,
      RectText(<<"-", "1">>, d2, d3, d4),
      RectText(d1, d2, d3, <<"-", "4">>),
      RectText(<<"1", ".", "5">>, d2, d3, d4),
      RectText(<<>>, d2, d3, d4),
      RectText(d1, d2, d3, <<>>),
      RectText(<<"a">>, d2, d3, d4),
      <<"(", "1", ",", "2", ")", "(", "3", ",", "4", ")">>,
      <<"[", "1", ",", "2", ",", "3", ",", "4", "]">>,
      <<"1", ",", "2", ",", "3", ",", "4">>,
      <<"x">> \o RectText(d1, d2, d3, d4),
      RectText(d1, d2, d3, d4) \o <<"]">>,
      <<"[">> \o RectText(d1, d2, d3, d4),
      RectText(<<"-", "1">>, d2, d3, d4) \o RectText(d4, d3, d2, d1) }

\* a dump whose first tag has the attributes al and holds one more node
BoundsInput(al, given, coords) ==
    Input("bounds",
          << Tok("open", al), Tok("self", AttrsA), Tok("close", <<>>) >>,
          <<>>, sOpenHierarchy, sCloseHierarchy, NoTrailer, <<>>)
      @@ [given |-> given, coords |-> coords]

\* the same tags printed without the <hierarchy> element around them
Bare(i) == [i EXCEPT !.pre = <<>>, !.post = <<>>]

\* given: the bounds attribute's value, <<>> when the tag has none;
\* coords: the four numbers of a value of the form [a,b][c,d]
BoundsInputs ==
    { BoundsInput(<< <<nBounds, RectText(a.str, b.str, c.str, d.str)>> >>,
                  << RectText(a.str, b.str, c.str, d.str) >>,
                  << a.val, b.val, c.val, d.val >>) :
        a \in Numerals, b \in Numerals, c \in Numerals, d \in Numerals }
      \cup { BoundsInput(
               << <<nBounds, RectText(a.str, b.str, c.str, d.str)>> >>,
               << RectText(a.str, b.str, c.str, d.str) >>,
               << a.val, b.val, c.val, d.val >>) :
               a \in LongNumerals, c \in LongNumerals,
               b \in { n \in Numerals : n.str = <<"1">> },
               d \in LongNumerals \cup { n \in Numerals : n.str = <<"0">> } }
      \cup { BoundsInput(<< <<nText, vA>>, <<nBounds, t>> >>, <<t>>, <<>>) :
               t \in OtherBoundsTexts }
      \cup { BoundsInput(al, <<>>, <<>>) : al \in { <<>>, << <<nText, vA>> >> } }
      \cup { Bare(BoundsInput(<< <<nBounds, t>> >>, <<t>>, <<>>)) :
               t \in { <<>>, <<"[", "1", ",", "2", "]">> } }

InitBounds ==
    /\ inp \in BoundsInputs
    /\ raw = DeviceOutput(inp)
    /\ xml = <<>>
    /\ pos = 0
    /\ stack = <<>>
    /\ elements = <<>>
    /\ heap = <<>>
    /\ pc = "call"
    /\ out = NoResult
    /\ cmds = <<>>
    /\ req = CoreRequest
    /\ session = NoSession

NextBounds ==
    \/ IssueDump
    \/ AdbReject
    \/ DumpUnexpected
    \/ DumpAccepted
    \/ ParseOpen
    \/ ParseClose
    \/ ParseReturn

SpecBounds == InitBounds /\ [][NextBounds]_vars

\* t is a non-empty run of decimal digits
IsNumeral(t) == t # <<>> /\ \A i \in 1..Len(t) : t[i] \in Digit

\* t is [a,b][c,d] with numerals a, b, c, d: the cuts are the first comma,
\* the "][" and the second comma
IsRectText(t) ==
    /\ Len(t) >= 9
    /\ t[1] = "[" /\ t[Len(t)] = "]"
    /\ \E i \in 2..Len(t) : \E j \in (i + 1)..Len(t) :
       \E k \in (j + 2)..Len(t) :
         /\ t[i] = "," /\ t[j] = "]" /\ t[j + 1] = "[" /\ t[k] = ","
         /\ IsNumeral(SubSeq(t, 2, i - 1))
         /\ IsNumeral(SubSeq(t, i + 1, j - 1))
         /\ IsNumeral(SubSeq(t, j + 2, k - 1))
         /\ IsNumeral(SubSeq(t, k + 1, Len(t) - 1))

\* the pattern is searched for: it matches when some part of s has the form
MatchesPattern(s) ==
    \E i \in 1..Len(s) : \E j \in i..Len(s) : IsRectText(SubSeq(s, i, j))

\* the first tag's node, once the parser has created it
FirstNodeParsed == pc \in {"scan", "done"} /\ Len(heap) >= 1

\* the rectangle of the four integers, in exact arithmetic
RectOf(coords) ==
    [x |-> coords[1], y |-> coords[2],
     width  |-> ExactSub(coords[3], coords[1]),
     height |-> ExactSub(coords[4], coords[2])]

\* C12 as stated: a bounds value [a,b][c,d] with non-negative decimal
\* integers is decoded to x = a, y = b, width = c - a, height = d - b, a
\* negative width or height of an inverted rectangle included.
C12_BoundsDecoded ==
    (FirstNodeParsed /\ inp.coords # <<>>) => heap[1].bounds = RectOf(inp.coords)

\* no numeral of the value is above 2^53
WithinTwo53(coords) ==
    \A i \in 1..4 : ~MagLess(Two53, coords[i].mag)

\* C12: a bounds value [a,b][c,d] with non-negative decimal integers none
\* of which is above 2^53 is decoded to x = a, y = b, width = c - a,
\* height = d - b, a negative width or height of an inverted rectangle
\* included.
C12_BoundsDecodedWithinTwo53 ==
    (FirstNodeParsed /\ inp.coords # <<>> /\ WithinTwo53(inp.coords)) =>
      heap[1].bounds = RectOf(inp.coords)

\* an inverted rectangle written with a leading zero has been decoded
C12_InvertedDecoded ==
    /\ pc = "done"
    /\ inp.coords = << NumOf(10), NumOf(3), NumOf(7), NumOf(0) >>
    /\ heap[1].bounds = [x |-> NumOf(10), y |-> NumOf(3),
                         width |-> NumOf(0 - 3), height |-> NumOf(0 - 3)]

\* the first tag has no bounds attribute, or one in which the pattern
\* [<left>,<top>][<right>,<bottom>] matches nowhere
NoRectGiven == inp.given = <<>> \/ ~MatchesPattern(inp.given[1])

\* the call has thrown before the parser read any tag: the command was
\* rejected, or its output lacks the <hierarchy> element
ThrownBeforeParse ==
    /\ out.kind = "error"
    /\ out.name \in {"adb failed", "unexpected output"}
    /\ pos = 0
    /\ heap = <<>>

\* C13: a bounds value in which the pattern does not match, or an absent
\* bounds attribute, is decoded to the zero rectangle without an error (the
\* only errors of the call are thrown before the parser reads a tag); the
\* node that carries it is produced with its other attributes, and the node
\* after it is parsed as its child.
C13_MalformedBoundsZero ==
    /\ pc = "error" => ThrownBeforeParse
    /\ (FirstNodeParsed /\ NoRectGiven) =>
         /\ heap[1].bounds = ZeroRect
         /\ heap[1].text = (IF inp.toks[1].attrs = <<>> THEN <<>> ELSE vA)
    /\ (pc = "done" /\ NoRectGiven) =>
         /\ elements = <<1>>
         /\ Len(heap) = 2
         /\ heap[1].children = <<2>>
         /\ heap[2].text = vA
         /\ heap[2].children = <<>>

\* the dump whose first tag has bounds="[1,2]" has been parsed to the end
C13_HalfRectParsed ==
    /\ pc = "done"
    /\ inp.given = << <<"[", "1", ",", "2", "]">> >>
    /\ heap[1].bounds = ZeroRect
    /\ Len(heap) = 2

----------------------------------------------------------------------------
(* The centre of an element's rectangle.                                   *)

\* a value n + 1/2 rounded to the nearest integer, ties away from zero
MathRoundAwayFromZero(whole, half) ==
    IF half /\ ~whole.neg THEN ExactAdd(whole, One) ELSE whole

\* Math.round of the value whole + 1/2 (half) or whole (~half): the nearest
\* integer, and of the two nearest the one toward +infinity
MathRound(whole, half) == IF half THEN ExactAdd(whole, One) ELSE whole

\* Math.round(a + b / 2): b / 2 is exact, the sum is the double nearest to
\* t / 2, t the exact 2a + b; that is t / 2 itself up to 2^53, an integer
\* or an integer and a half, and an integer above
RoundSumHalf(a, b) ==
    IF a.kind = "nan" \/ b.kind = "nan" THEN NaN
    ELSE IF a.kind = "inf"
    THEN IF b.kind = "inf" /\ a.neg # b.neg THEN NaN ELSE a
    ELSE IF b.kind = "inf" THEN b
    ELSE CHOOSE v \in
           { IF r.exp = 0 THEN MathRound(FloorHalf(r.t), MagOdd(r.t.mag))
             ELSE Scaled(r.t.neg, r, r.exp - 1) :
               r \in { RoundLoop(t.mag, 0, FALSE, FALSE) @@ [t |-> t] :
                         t \in { ExactAdd(ExactAdd(a, a), b) } } } : TRUE

elementCenter(el) ==
    [x |-> RoundSumHalf(el.bounds.x, el.bounds.width),
     y |-> RoundSumHalf(el.bounds.y, el.bounds.height)]

Coords == (0 - MaxCoord)..MaxCoord

\* 2^52
Two52 == MagHalve(Two53)

\* x and width of rectangles whose x + width / 2 is not a double
WideSpans ==
    { <<Num(FALSE, Two52), NumOf(1)>>, <<Num(TRUE, Two52), NumOf(0 - 1)>>,
      <<Num(FALSE, Two53), NumOf(1)>>, <<Num(FALSE, Two53), NumOf(3)>>,
      <<Num(FALSE, Two52), NumOf(2)>>, <<Num(FALSE, MagSub(Two52, <<"1">>)), NumOf(1)>>,
      <<Num(FALSE, Two53), Num(FALSE, Two53)>> }

\* elements that differ in their rectangle
CenterInputs ==
    { [family |-> "center",
       bounds |-> [x |-> NumOf(x), y |-> NumOf(y),
                   width |-> NumOf(w), height |-> NumOf(h)]] :
        x \in Coords, y \in Coords, w \in Coords, h \in Coords }
      \cup { [family |-> "center",
              bounds |-> [x |-> s[1], y |-> t[1],
                          width |-> s[2], height |-> t[2]]] :
               s \in WideSpans, t \in WideSpans \cup { <<Zero, One>> } }

InitCenter ==
    /\ inp \in CenterInputs
    /\ raw = <<>>
    /\ xml = <<>>
    /\ pos = 0
    /\ stack = <<>>
    /\ elements = <<>>
    /\ heap = <<>>
    /\ pc = "element"
    /\ out = NoResult
    /\ cmds = <<>>
    /\ req = CoreRequest
    /\ session = NoSession

ElementCenter ==
    /\ pc = "element"
    /\ out' = [kind |-> "center", value |-> elementCenter(inp)]
    /\ pc' = "centered"
    /\ UNCHANGED <<inp, raw, xml, pos, stack, elements, heap, cmds, req,
                   session>>

NextCenter == ElementCenter

SpecCenter == InitCenter /\ [][NextCenter]_vars

\* the exact 2a + b
TwiceSum(a, b) == ExactAdd(ExactAdd(a, a), b)

\* r is the value a + b/2 rounded to the nearest integer, a tie upward:
\* a + b/2 - 1/2 < r <= a + b/2 + 1/2, doubled to stay in the integers
IsRoundedHalfUp(r, a, b) ==
    /\ r.kind = "int"
    /\ NumLess(ExactSub(TwiceSum(a, b), One), ExactAdd(r, r))
    /\ ~NumLess(ExactAdd(TwiceSum(a, b), One), ExactAdd(r, r))
    /\ r = FloorHalf(ExactAdd(TwiceSum(a, b), One))

\* C14 as stated: elementCenter returns for every integer rectangle,
\* negative and zero sizes included, the point (round(x + width/2),
\* round(y + height/2)) with a fraction of one half rounded upward: x is
\* floor((2x + width + 1) / 2), and likewise y.
C14_CenterRoundsHalfUp ==
    pc = "centered" =>
      /\ out.kind = "center"
      /\ IsRoundedHalfUp(out.value.x, inp.bounds.x, inp.bounds.width)
      /\ IsRoundedHalfUp(out.value.y, inp.bounds.y, inp.bounds.height)

\* x + width/2 is a double: 2x + width is not above 2^53 in magnitude
HalfSumExact(a, b) == ~MagLess(Two53, TwiceSum(a, b).mag)

\* C14: elementCenter returns for every integer rectangle whose
\* 2x + width and 2y + height are at most 2^53 in magnitude, negative and
\* zero sizes included, the point (round(x + width/2), round(y + height/2))
\* with a fraction of one half rounded upward: x is
\* floor((2x + width + 1) / 2), and likewise y.
C14_CenterRoundsHalfUpExact ==
    ( /\ pc = "centered"
      /\ HalfSumExact(inp.bounds.x, inp.bounds.width)
      /\ HalfSumExact(inp.bounds.y, inp.bounds.height) ) =>
      /\ out.kind = "center"
      /\ IsRoundedHalfUp(out.value.x, inp.bounds.x, inp.bounds.width)
      /\ IsRoundedHalfUp(out.value.y, inp.bounds.y, inp.bounds.height)

\* a centre whose x is the negative tie -2.5, returned as -2
C14_NegativeTie ==
    /\ pc = "centered"
    /\ inp.bounds.x = NumOf(0 - 3) /\ inp.bounds.width = NumOf(1)
    /\ out.value.x = NumOf(0 - 2)

----------------------------------------------------------------------------
(* The tool handlers of the server. A handler runs from one await to the   *)
(* next without a break: a command is issued and the handler is suspended, *)
(* and what follows the command's completion, up to the next command       *)
(* issued, is one turn of the event loop. SpecTap is one tap_element       *)
(* request over all enumerated arguments.                                  *)

\* adb(["devices", "-l"]) of listDevices
DevicesCommand == [name |-> "devices"]

\* adb(["shell", "input", "tap", String(x), String(y)])
TapCommand(center) ==
    [name |-> "tap", x |-> NumToStr(center.x), y |-> NumToStr(center.y)]

IsTap(c) == c.name = "tap"

\* an optional argument is <<>> when omitted and <<v>> when given
\* !v of an optional string: omitted or empty
Falsy(opt) == IF opt = <<>> THEN TRUE ELSE opt[1] = <<>>

vSerial == <<"e", "m", "u">>

\* an index argument is a number: an integer n, or n + 1/2
IndexArgs ==
    { <<>> } \cup { <<[n |-> k, half |-> FALSE]>> : k \in (0 - 1)..MaxIndex }
      \cup { <<[n |-> 0, half |-> TRUE]>> }

TapRequests ==
    { [tool |-> "tap_element", args |-> a] :
        a \in [ resource_id : { <<>>, << <<>> >>, <<vIdX>> },
                text : { <<>>, <<vA>> },
                content_desc : { <<>>, <<vD>> },
                index : IndexArgs,
                device_id : { <<>>, <<vSerial>> } ] }

\* what the screen shows when a request's dump is taken
ScreenTokens ==
    { <<>>,
      << Tok("self", << <<nText, vA>>,
                        <<nBounds, RectText(<<"0">>, <<"0">>, d3, d3)>> >>) >>,
      << Tok("open", << <<nResourceId, vIdX>>, <<nText, vA>>,
                        <<nBounds, RectText(<<"0">>, <<"0">>,
                                            <<"1", "0">>, <<"1", "0">>)>> >>),
         Tok("self", << <<nText, vA>>,
                        <<nBounds, RectText(d1, d2, d2, d2)>> >>),
         Tok("self", << <<nResourceId, vIdShort>>, <<nText, vA>>,
                        <<nBounds, RectText(d3, d1, <<"0">>, <<"0">>)>> >>),
         Tok("close", <<>>) >> }

Screen(toks) ==
    Input("server", toks, <<>>, sOpenHierarchy, sCloseHierarchy,
          [kind |-> "hierchary", text |-> trDevice], <<"\n">>)

JunkScreen == Input("server", <<>>, <<>>, sJunk, <<>>, NoTrailer, <<>>)

ServerInputs == { Screen(toks) : toks \in ScreenTokens } \cup { JunkScreen }

\* a handler that has just been called with the request r, the device
\* being about to print what i says
ServerInit(r, i) ==
    /\ inp = i
    /\ raw = (IF i.family = "server" THEN DeviceOutput(i) ELSE <<>>)
    /\ xml = <<>>
    /\ pos = 0
    /\ stack = <<>>
    /\ elements = <<>>
    /\ heap = <<>>
    /\ pc = "request"
    /\ out = NoResult
    /\ cmds = <<>>
    /\ req = r

InitTap ==
    /\ \E r \in TapRequests : \E i \in ServerInputs : ServerInit(r, i)
    /\ session = NoSession

ErrorResult(text) == [kind |-> "result", isError |-> TRUE, text |-> text]

Thrown(name) == [kind |-> "error", name |-> name, message |-> <<>>]

\* !resource_id && !text && !content_desc
NoSelectorGiven ==
    /\ Falsy(req.args.resource_id)
    /\ Falsy(req.args.text)
    /\ Falsy(req.args.content_desc)

\* tap_element without a usable selector field: the error result is
\* returned at once
TapNoSelector ==
    /\ pc = "request"
    /\ req.tool = "tap_element"
    /\ NoSelectorGiven
    /\ out' = ErrorResult("no selector")
    /\ pc' = "replied"
    /\ UNCHANGED <<inp, raw, xml, pos, stack, elements, heap, cmds, req,
                   session>>

\* the handler goes on to resolveDevice: every tool but list_devices does
Resolving ==
    /\ pc = "request"
    /\ req.tool # "list_devices"
    /\ req.tool = "tap_element" => ~NoSelectorGiven

\* resolveDevice with a device id: returned as it is. resolveDevice is an
\* async function: the handler is suspended at its await (pc "call") until
\* the event loop takes it up again
ResolveGiven ==
    /\ Resolving
    /\ ~Falsy(req.args.device_id)
    /\ pc' = "call"
    /\ UNCHANGED <<inp, raw, xml, pos, stack, elements, heap, out, cmds, req,
                   session>>

\* resolveDevice without a device id: listDevices issues its command and
\* the handler is suspended
IssueDevices ==
    /\ Resolving
    /\ Falsy(req.args.device_id)
    /\ cmds' = Append(cmds, DevicesCommand)
    /\ pc' = "listing"
    /\ UNCHANGED <<inp, raw, xml, pos, stack, elements, heap, out, req,
                   session>>

\* the devices are listed and exactly one is online: its id is returned,
\* and the handler is left at its await of resolveDevice
ResolveListed ==
    /\ pc = "listing"
    /\ pc' = "call"
    /\ UNCHANGED <<inp, raw, xml, pos, stack, elements, heap, out, cmds, req,
                   session>>

\* resolveDevice throws: the listing fails, or no device or more than one
\* is online
ResolveFails ==
    /\ pc = "listing"
    /\ \E why \in {"adb failed", "no devices", "multiple devices"} :
         out' = Thrown(why)
    /\ pc' = "error"
    /\ UNCHANGED <<inp, raw, xml, pos, stack, elements, heap, cmds, req,
                   session>>

Hierarchy == [elements |-> elements, heap |-> heap]

TextResult(format, value) ==
    [kind |-> "result", isError |-> FALSE, format |-> format, value |-> value]

\* get_ui_hierarchy after getUiHierarchy has returned: the compact text
\* unless compact is false, else the flat list if flat is true, else the
\* forest (the last two as the value that is serialized)
HierarchyReply ==
    /\ pc = "done"
    /\ req.tool = "get_ui_hierarchy"
    /\ out' = IF req.args.compact # <<FALSE>>
              THEN TextResult("compact",
                     formatCompactTree(heap, elements, req.args.max_depth))
              ELSE IF req.args.flat = <<TRUE>>
              THEN TextResult("flat",
                     flattenHierarchy(heap, elements, req.args.max_depth))
              ELSE TextResult("json", Hierarchy)
    /\ pc' = "replied"
    /\ UNCHANGED <<inp, raw, xml, pos, stack, elements, heap, cmds, req,
                   session>>

\* the selector built from the fields that are given and not empty
TapSelector ==
    [ resource_id  |-> IF Falsy(req.args.resource_id) THEN <<>>
                       ELSE req.args.resource_id,
      text         |-> IF Falsy(req.args.text) THEN <<>> ELSE req.args.text,
      content_desc |-> IF Falsy(req.args.content_desc) THEN <<>>
                       ELSE req.args.content_desc ]

TapMatches == findElements(heap, elements, TapSelector)

\* index ?? 0
IndexOrZero(index) ==
    IF index = <<>> THEN [n |-> 0, half |-> FALSE] ELSE index[1]

\* an array that returns its first element for any index it has not
ArrayAtOrFirst(arr, idx) ==
    IF ~idx.half /\ idx.n \in 0..(Len(arr) - 1) THEN <<arr[idx.n + 1]>>
    ELSE IF arr # <<>> THEN <<arr[1]>> ELSE <<>>

\* arr[idx]: <<>> (undefined) unless idx is an integer from 0 to length - 1
ArrayAt(arr, idx) ==
    IF ~idx.half /\ idx.n \in 0..(Len(arr) - 1) THEN <<arr[idx.n + 1]>>
    ELSE <<>>

TapTarget(matches) == ArrayAt(matches, IndexOrZero(req.args.index))

Tapping == pc = "done" /\ req.tool = "tap_element"

\* matches.length === 0
TapNoMatch ==
    /\ Tapping
    /\ \E matches \in { TapMatches } :
         /\ Len(matches) = 0
         /\ out' = ErrorResult("no element")
    /\ pc' = "replied"
    /\ UNCHANGED <<inp, raw, xml, pos, stack, elements, heap, cmds, req,
                   session>>

\* matches.length > 1 && index === undefined
TapAmbiguous ==
    /\ Tapping
    /\ \E matches \in { TapMatches } :
         /\ Len(matches) > 1 /\ req.args.index = <<>>
         /\ out' = ErrorResult("multiple elements")
    /\ pc' = "replied"
    /\ UNCHANGED <<inp, raw, xml, pos, stack, elements, heap, cmds, req,
                   session>>

\* !target
TapOutOfRange ==
    /\ Tapping
    /\ \E matches \in { TapMatches } :
         /\ Len(matches) # 0
         /\ ~(Len(matches) > 1 /\ req.args.index = <<>>)
         /\ TapTarget(matches) = <<>>
         /\ out' = ErrorResult("index out of range")
    /\ pc' = "replied"
    /\ UNCHANGED <<inp, raw, xml, pos, stack, elements, heap, cmds, req,
                   session>>

\* the target is found: the tap command is issued for its centre and the
\* handler is suspended. The target is kept in out until the reply.
TapIssue ==
    /\ Tapping
    /\ \E matches \in { TapMatches } :
         /\ Len(matches) # 0
         /\ ~(Len(matches) > 1 /\ req.args.index = <<>>)
         /\ TapTarget(matches) # <<>>
         /\ \E target \in { heap[TapTarget(matches)[1]] } :
            \E center \in { elementCenter(target) } :
              /\ cmds' = Append(cmds, TapCommand(center))
              /\ out' = [kind |-> "target", target |-> target,
                         center |-> center]
    /\ pc' = "tapping"
    /\ UNCHANGED <<inp, raw, xml, pos, stack, elements, heap, req, session>>

\* the tap command has completed: the reply is built
TapSent ==
    /\ pc = "tapping"
    /\ req.tool = "tap_element"
    /\ out' = TextResult("tap",
                [ success |-> TRUE,
                  element_found |->
                    [ class |-> out.target.class, text |-> out.target.text,
                      resource_id |-> out.target.resource_id ],
                  coordinates_tapped |-> out.center ])
    /\ pc' = "replied"
    /\ UNCHANGED <<inp, raw, xml, pos, stack, elements, heap, cmds, req,
                   session>>

\* adb() rejects the tap command: the handler throws
TapRejected ==
    /\ pc = "tapping"
    /\ req.tool = "tap_element"
    /\ out' = Thrown("adb failed")
    /\ pc' = "error"
    /\ UNCHANGED <<inp, raw, xml, pos, stack, elements, heap, cmds, req,
                   session>>

NextTap ==
    \/ TapNoSelector
    \/ ResolveGiven
    \/ IssueDevices
    \/ ResolveListed
    \/ ResolveFails
    \/ IssueDump
    \/ AdbReject
    \/ DumpUnexpected
    \/ DumpAccepted
    \/ ParseClose
    \/ ParseOpen
    \/ ParseReturn
    \/ TapNoMatch
    \/ TapAmbiguous
    \/ TapOutOfRange
    \/ TapIssue
    \/ TapSent
    \/ TapRejected

SpecTap == InitTap /\ [][NextTap]_vars

\* number of dump commands the handler has issued
DumpCount == Cardinality({ i \in 1..Len(cmds) : cmds[i].name = "dump" })

\* the dump command of the handler was rejected
DumpFailed ==
    /\ pc = "error"
    /\ out = Thrown("adb failed")
    /\ cmds # <<>>
    /\ cmds[Len(cmds)].name = "dump"

\* the tap commands the handler has issued
TapCommands == SelectSeq(cmds, IsTap)

\* the nodes of the forest that have every given, non-empty selector field,
\* in document order (the order of their creation)
MatchingNodes ==
    LET has(n) ==
          /\ ~Falsy(req.args.resource_id) =>
               \/ heap[n].resource_id = req.args.resource_id[1]
               \/ AfterLastSlash(heap[n].resource_id) = req.args.resource_id[1]
          /\ ~Falsy(req.args.text) => heap[n].text = req.args.text[1]
          /\ ~Falsy(req.args.content_desc) =>
               heap[n].content_desc = req.args.content_desc[1]
    IN  SelectSeq([n \in 1..Len(heap) |-> n], has)

\* the index given is an integer from 0 to count - 1
IndexInRange(count) ==
    /\ req.args.index # <<>>
    /\ ~req.args.index[1].half
    /\ req.args.index[1].n \in 0..(count - 1)

\* the point with x = floor((2x + width + 1) / 2) and likewise y, as the
\* decimal numerals the command carries
CenterArgs(b) ==
    [name |-> "tap",
     x |-> NumToStr(FloorHalf(ExactAdd(TwiceSum(b.x, b.width), One))),
     y |-> NumToStr(FloorHalf(ExactAdd(TwiceSum(b.y, b.height), One)))]

\* the request has been answered with a result or an error
Answered == pc \in {"replied", "error"}

\* the forest has been returned to the handler, which has issued its tap
\* command or answered without one
TapDecided ==
    \/ pc = "tapping"
    \/ /\ Answered
       /\ out # ErrorResult("no selector")
       /\ DumpCount = 1
       /\ ~DumpFailed
       /\ out.kind = "result" \/ TapCommands # <<>>

TapOutcome ==
    /\ Len(TapCommands) <= 1
    /\ TapCommands # <<>> => pc \in {"tapping", "replied", "error"}
    /\ (Answered /\ NoSelectorGiven) =>
         /\ cmds = <<>>
         /\ pc = "replied" /\ out.isError
    /\ (Answered /\ TapCommands = <<>>) =>
         (pc = "error" \/ out.isError)
    /\ TapDecided =>
         \A m \in { MatchingNodes } :
           IF Len(m) = 0
             THEN TapCommands = <<>> /\ out = ErrorResult("no element")
           ELSE IF Len(m) > 1 /\ req.args.index = <<>>
             THEN TapCommands = <<>> /\ out = ErrorResult("multiple elements")
           ELSE IF req.args.index # <<>> /\ ~IndexInRange(Len(m))
             THEN TapCommands = <<>> /\ out = ErrorResult("index out of range")
           ELSE /\ ~NoSelectorGiven
                /\ Len(m) = 1 \/ IndexInRange(Len(m))
                /\ \E k \in { IF req.args.index = <<>> THEN 1
                              ELSE req.args.index[1].n + 1 } :
                     /\ TapCommands = << CenterArgs(heap[m[k]].bounds) >>
                     /\ cmds[Len(cmds)] = TapCommands[1]
                     /\ pc = "replied" =>
                          /\ ~out.isError
                          /\ out.value.success
                          /\ out.value.element_found.resource_id
                               = heap[m[k]].resource_id

\* C16: a tap_element request sends at most one tap command, and only when
\* a selector field is given and either exactly one element matches or an
\* index in the range of the matches is given; the point is the centre of
\* matches[index, default 0]. With no selector field, no match, several
\* matches without an index, or an index out of range, the result is an
\* error and no tap command is sent; with no selector field no device
\* command is sent at all.
C16_TapOnlyResolvedTarget == TapOutcome

\* the third of three matches has been tapped: an inverted rectangle with
\* centre (2, 1)
C16_ThirdMatchTapped ==
    /\ pc = "replied"
    /\ ~out.isError
    /\ req.args.index = << [n |-> 2, half |-> FALSE] >>
    /\ Len(MatchingNodes) = 3
    /\ TapCommands = << [name |-> "tap", x |-> <<"2">>, y |-> <<"1">>] >>

----------------------------------------------------------------------------
(* getCurrentActivity: three strategies, each a dumpsys command and the   *)
(* regular expressions applied to what it prints.                          *)

lCurrentFocus ==
    <<"m", "C", "u", "r", "r", "e", "n", "t", "F", "o", "c", "u", "s", "=">>
lFocusedApp ==
    <<"m", "F", "o", "c", "u", "s", "e", "d", "A", "p", "p", "=">>
lTopResumed ==
    <<"t", "o", "p", "R", "e", "s", "u", "m", "e", "d", "A", "c", "t", "i",
      "v", "i", "t", "y", "=", "A", "c", "t", "i", "v", "i", "t", "y", "R",
      "e", "c", "o", "r", "d", "{">>
lResumed ==
    <<"m", "R", "e", "s", "u", "m", "e", "d", "A", "c", "t", "i", "v", "i",
      "t", "y", "=", "A", "c", "t", "i", "v", "i", "t", "y", "R", "e", "c",
      "o", "r", "d", "{">>
lResumedColon ==
    <<"R", "e", "s", "u", "m", "e", "d", "A", "c", "t", "i", "v", "i", "t",
      "y", ":">>
lActivityRecord ==
    <<"A", "c", "t", "i", "v", "i", "t", "y", "R", "e", "c", "o", "r", "d",
      "{">>
lDisplayFocus ==
    <<"f", "o", "c", "u", "s", "e", "d", "A", "p", "p", "=">>

\* index after the white space that starts at j (j itself if none does)
SpaceEnd(s, j) ==
    LET stop == FirstOf({ k \in j..Len(s) : s[k] \notin WS })
    IN  IF stop = 0 THEN Len(s) + 1 ELSE stop

\* index after the characters other than white space that start at k
NonSpaceEnd(s, k) ==
    LET stop == FirstOf({ j \in k..Len(s) : s[j] \in WS })
    IN  IF stop = 0 THEN Len(s) + 1 ELSE stop

\* index of the first line terminator at or after e, Len(s) + 1 if none:
\* as far as a "." can reach
DotReach(s, e) ==
    LET stop == FirstOf({ j \in e..Len(s) : s[j] \in LineTerminator })
    IN  IF stop = 0 THEN Len(s) + 1 ELSE stop

\* index of the first "}" at or after e, Len(s) + 1 if none: as far as
\* [^}] can reach
BraceReach(s, e) ==
    LET stop == FirstOf({ j \in e..Len(s) : s[j] = "}" })
    IN  IF stop = 0 THEN Len(s) + 1 ELSE stop

\* (\S+)\/(\S+) at k, both greedy: the run of non-space characters at k,
\* cut at its last "/" that has a character on either side
PairAt(s, k) ==
    LET e2 == NonSpaceEnd(s, k)
        q  == LastOf({ q \in (k + 1)..(e2 - 2) : s[q] = "/" })
    IN  IF q = 0 THEN <<>>
        ELSE << SubSeq(s, k, q - 1), SubSeq(s, q + 1, e2 - 1) >>

\* .*?\s+(\S+)\/(\S+) at e: the first white space on the line (its end
\* included) that a pair follows
LazyDotSpacePair(s, e) ==
    LET j == FirstOf({ j \in e..DotReach(s, e) :
                         /\ j <= Len(s) /\ s[j] \in WS
                         /\ PairAt(s, SpaceEnd(s, j)) # <<>> })
    IN  IF j = 0 THEN <<>> ELSE PairAt(s, SpaceEnd(s, j))

\* [^}]*\s+(\S+)\/(\S+) at e: the last white space before the first "}"
\* that a pair follows
BraceSpacePair(s, e) ==
    LET j == LastOf({ j \in e..(BraceReach(s, e) - 1) :
                        /\ s[j] \in WS
                        /\ PairAt(s, SpaceEnd(s, j)) # <<>> })
    IN  IF j = 0 THEN <<>> ELSE PairAt(s, SpaceEnd(s, j))

\* .*?(\S+)\/(\S+) at e: the first place on the line at which a pair starts
LazyDotPair(s, e) ==
    LET j == FirstOf({ j \in e..DotReach(s, e) :
                         j <= Len(s) /\ PairAt(s, j) # <<>> })
    IN  IF j = 0 THEN <<>> ELSE PairAt(s, j)

\* the literal head of a pattern at i: a, or a\s+b; the index after it,
\* 0 if it is not at i
HeadEnd(s, i, head) ==
    IF ~StartsAt(s, i, head.a) THEN 0
    ELSE IF head.b = <<>> THEN i + Len(head.a)
    ELSE LET w == i + Len(head.a)
             k == SpaceEnd(s, w)
         IN  IF k > w /\ StartsAt(s, k, head.b) THEN k + Len(head.b) ELSE 0

RestAt(s, e, rest) ==
    CASE rest = "lazy dot, space" -> LazyDotSpacePair(s, e)
      [] rest = "no brace, space" -> BraceSpacePair(s, e)
      [] rest = "lazy dot"        -> LazyDotPair(s, e)

\* s.match(pattern): the two groups of the leftmost match, <<>> if none
RegexMatch(s, pattern) ==
    LET at(i) == IF HeadEnd(s, i, pattern.head) = 0 THEN <<>>
                 ELSE RestAt(s, HeadEnd(s, i, pattern.head), pattern.rest)
        i0 == FirstOf({ i \in 1..Len(s) : at(i) # <<>> })
    IN  IF i0 = 0 THEN <<>> ELSE at(i0)

Pattern(a, b, rest) == [head |-> [a |-> a, b |-> b], rest |-> rest]

\* /mCurrentFocus=.*?\s+(\S+)\/(\S+)/, /mFocusedApp=.*?\s+(\S+)\/(\S+)/
WindowPatterns ==
    << Pattern(lCurrentFocus, <<>>, "lazy dot, space"),
       Pattern(lFocusedApp, <<>>, "lazy dot, space") >>

\* /topResumedActivity=ActivityRecord\{[^}]*\s+(\S+)\/(\S+)/,
\* /mResumedActivity=ActivityRecord\{[^}]*\s+(\S+)\/(\S+)/,
\* /ResumedActivity:\s+ActivityRecord\{[^}]*\s+(\S+)\/(\S+)/
ActivitiesPatterns ==
    << Pattern(lTopResumed, <<>>, "no brace, space"),
       Pattern(lResumed, <<>>, "no brace, space"),
       Pattern(lResumedColon, lActivityRecord, "no brace, space") >>

\* /focusedApp=.*?(\S+)\/(\S+)/
DisplaysPatterns == << Pattern(lDisplayFocus, <<>>, "lazy dot") >>

\* a strategy that returns the match of its last pattern that matches
LastMatch(s, patterns) ==
    LET k == LastOf({ k \in 1..Len(patterns) :
                        RegexMatch(s, patterns[k]) # <<>> })
    IN  IF k = 0 THEN <<>> ELSE RegexMatch(s, patterns[k])

\* the patterns of a strategy tried in order: the groups of the first that
\* matches, <<>> if none does
FirstMatch(s, patterns) ==
    LET k == FirstOf({ k \in 1..Len(patterns) :
                         RegexMatch(s, patterns[k]) # <<>> })
    IN  IF k = 0 THEN <<>> ELSE RegexMatch(s, patterns[k])

\* a try block: a rejected command is caught and counts as no match
Attempt(output, patterns) ==
    IF ~output.ok THEN <<>> ELSE FirstMatch(output.text, patterns)

Activity(m) == [kind |-> "activity", package |-> m[1], activity |-> m[2]]

WindowCommand == [name |-> "dumpsys window windows"]
ActivitiesCommand == [name |-> "dumpsys activity activities"]
DisplaysCommand == [name |-> "dumpsys window displays"]

\* the focused window, as most versions print it
wFocus ==
    <<"m", "C", "u", "r", "r", "e", "n", "t", "F", "o", "c", "u", "s",
      "=", "W", "i", "n", "d", "o", "w", "{", "a", " ", "u", "0", " ",
      "p", "/", ".", "M", "}">>

\* what "dumpsys window windows" can print
WindowTexts ==
    {
      wFocus,
      <<"m", "C", "u", "r", "r", "e", "n", "t", "F", "o", "c", "u", "s",
        "=", "n", "u", "l", "l", "\n", " ", " ", "m", "F", "o", "c", "u",
        "s", "e", "d", "A", "p", "p", "=", "T", "o", "k", "e", "n", "{",
        "b", " ", "p", "/", ".", "F", "}">>,
      <<"m", "C", "u", "r", "r", "e", "n", "t", "F", "o", "c", "u", "s",
        "=", "W", "i", "n", "d", "o", "w", "{", "a", " ", "q", "/", ".",
        "M", "}", "\n", " ", "m", "F", "o", "c", "u", "s", "e", "d", "A",
        "p", "p", "=", "T", "o", "k", "e", "n", "{", "b", " ", "p", "/",
        ".", "F", "}">>,
      <<"m", "C", "u", "r", "r", "e", "n", "t", "F", "o", "c", "u", "s",
        "=", "n", "u", "l", "l">>,
      <<>>,
      <<"m", "C", "u", "r", "r", "e", "n", "t", "F", "o", "c", "u", "s",
        "=", "n", "u", "l", "l", "\n", " ", "x", "/", "y">> }

\* what "dumpsys activity activities" can print
ActivitiesTexts ==
    {
      <<"t", "o", "p", "R", "e", "s", "u", "m", "e", "d", "A", "c", "t",
        "i", "v", "i", "t", "y", "=", "A", "c", "t", "i", "v", "i", "t",
        "y", "R", "e", "c", "o", "r", "d", "{", "a", " ", "u", "0", " ",
        "p", "/", ".", "T", " ", "t", "1", "}">>,
      <<" ", " ", "m", "R", "e", "s", "u", "m", "e", "d", "A", "c", "t",
        "i", "v", "i", "t", "y", "=", "A", "c", "t", "i", "v", "i", "t",
        "y", "R", "e", "c", "o", "r", "d", "{", "a", " ", "u", "0", " ",
        "p", "/", ".", "R", " ", "t", "1", "}">>,
      <<" ", " ", "R", "e", "s", "u", "m", "e", "d", "A", "c", "t", "i",
        "v", "i", "t", "y", ":", " ", "A", "c", "t", "i", "v", "i", "t",
        "y", "R", "e", "c", "o", "r", "d", "{", "a", " ", "u", "0", " ",
        "p", "/", ".", "A", " ", "t", "1", "}">>,
      <<" ", " ", "m", "R", "e", "s", "u", "m", "e", "d", "A", "c", "t",
        "i", "v", "i", "t", "y", "=", "A", "c", "t", "i", "v", "i", "t",
        "y", "R", "e", "c", "o", "r", "d", "{", "a", " ", "r", "/", ".",
        "R", "}", "\n", "t", "o", "p", "R", "e", "s", "u", "m", "e", "d",
        "A", "c", "t", "i", "v", "i", "t", "y", "=", "A", "c", "t", "i",
        "v", "i", "t", "y", "R", "e", "c", "o", "r", "d", "{", "a", " ",
        "t", "/", ".", "T", "}">>,
      <<"t", "o", "p", "R", "e", "s", "u", "m", "e", "d", "A", "c", "t",
        "i", "v", "i", "t", "y", "=", "A", "c", "t", "i", "v", "i", "t",
        "y", "R", "e", "c", "o", "r", "d", "{", "a", "}", "\n", "R", "e",
        "s", "u", "m", "e", "d", "A", "c", "t", "i", "v", "i", "t", "y",
        ":", "A", "c", "t", "i", "v", "i", "t", "y", "R", "e", "c", "o",
        "r", "d", "{", "a", " ", "p", "/", ".", "A", "}">> }

\* the focused application of a display
dFocused ==
    <<"f", "o", "c", "u", "s", "e", "d", "A", "p", "p", "=", "T", "o",
      "k", "e", "n", "{", "c", " ", "p", "/", ".", "D", "}">>

\* what "dumpsys window displays" can print
DisplaysTexts ==
    {
      dFocused,
      <<"f", "o", "c", "u", "s", "e", "d", "A", "p", "p", "=", "p", "/",
        ".", "D">>,
      <<"m", "F", "o", "c", "u", "s", "e", "d", "A", "p", "p", "=", "p",
        "/", ".", "D">>,
      <<>> }

Rejected == [ok |-> FALSE, text |-> <<>>]

Printed(t) == [ok |-> TRUE, text |-> t]

\* what each of the three commands does when it is issued
ActivityInputs ==
    { [family |-> "activity", window |-> w, activities |-> a,
       displays |-> d] :
        w \in { Rejected } \cup { Printed(t) : t \in WindowTexts },
        a \in { Rejected } \cup { Printed(t) : t \in ActivitiesTexts },
        d \in { Rejected } \cup { Printed(t) : t \in DisplaysTexts } }

ActivityRequest ==
    [tool |-> "get_current_activity", args |-> [device_id |-> <<vSerial>>]]

InitActivity ==
    /\ inp \in ActivityInputs
    /\ raw = <<>>
    /\ xml = <<>>
    /\ pos = 0
    /\ stack = <<>>
    /\ elements = <<>>
    /\ heap = <<>>
    /\ pc = "call"
    /\ out = NoResult
    /\ cmds = <<>>
    /\ req = ActivityRequest
    /\ session = NoSession

\* getCurrentActivity is called: the command of strategy 1 is issued and
\* the call is suspended
IssueWindow ==
    /\ pc = "call"
    /\ req.tool = "get_current_activity"
    /\ cmds' = Append(cmds, WindowCommand)
    /\ pc' = "window"
    /\ UNCHANGED <<inp, raw, xml, pos, stack, elements, heap, out, req,
                   session>>

\* the command of strategy 1 has completed: a match is returned, else the
\* command of strategy 2 is issued
TryWindow ==
    /\ pc = "window"
    /\ \E m \in { Attempt(inp.window, WindowPatterns) } :
         IF m # <<>>
         THEN pc' = "returned" /\ out' = Activity(m) /\ cmds' = cmds
         ELSE /\ pc' = "activities" /\ out' = out
              /\ cmds' = Append(cmds, ActivitiesCommand)
    /\ UNCHANGED <<inp, raw, xml, pos, stack, elements, heap, req, session>>

\* the command of strategy 2 has completed: a match is returned, else the
\* command of strategy 3 is issued
TryActivities ==
    /\ pc = "activities"
    /\ \E m \in { Attempt(inp.activities, ActivitiesPatterns) } :
         IF m # <<>>
         THEN pc' = "returned" /\ out' = Activity(m) /\ cmds' = cmds
         ELSE /\ pc' = "displays" /\ out' = out
              /\ cmds' = Append(cmds, DisplaysCommand)
    /\ UNCHANGED <<inp, raw, xml, pos, stack, elements, heap, req, session>>

\* the command of strategy 3 has completed: a match is returned, else the
\* call throws
TryDisplays ==
    /\ pc = "displays"
    /\ \E m \in { Attempt(inp.displays, DisplaysPatterns) } :
         IF m # <<>> THEN pc' = "returned" /\ out' = Activity(m)
         ELSE /\ pc' = "error"
              /\ out' = Thrown("Could not determine current activity")
    /\ UNCHANGED <<inp, raw, xml, pos, stack, elements, heap, cmds, req,
                   session>>

NextActivity ==
    \/ IssueWindow
    \/ TryWindow
    \/ TryActivities
    \/ TryDisplays

SpecActivity == InitActivity /\ [][NextActivity]_vars

\* the characters of s from a to b - 1 are all in (among = TRUE) or all
\* outside (among = FALSE) the set
AllFrom(s, a, b, set, among) ==
    \A n \in a..(b - 1) : (s[n] \in set) = among

\* the head of a pattern occupies s from i to e - 1
HeadIs(s, i, e, head) ==
    IF head.b = <<>>
    THEN StartsAt(s, i, head.a) /\ e = i + Len(head.a)
    ELSE /\ StartsAt(s, i, head.a)
         /\ StartsAt(s, e - Len(head.b), head.b)
         /\ e - Len(head.b) > i + Len(head.a)
         /\ AllFrom(s, i + Len(head.a), e - Len(head.b), WS, TRUE)

\* what a pattern has between its head and its first group occupies s from
\* e to k - 1
GapIs(s, e, k, rest) ==
    CASE rest = "lazy dot" -> AllFrom(s, e, k, LineTerminator, FALSE)
      [] rest = "lazy dot, space" ->
           \E j \in e..(k - 1) :
             /\ AllFrom(s, e, j, LineTerminator, FALSE)
             /\ AllFrom(s, j, k, WS, TRUE)
      [] rest = "no brace, space" ->
           \E j \in e..(k - 1) :
             /\ AllFrom(s, e, j, {"}"}, FALSE)
             /\ AllFrom(s, j, k, WS, TRUE)

\* some part of s has the form of the pattern with the groups g1 and g2
MatchesAs(s, pattern, g1, g2) ==
    /\ g1 # <<>> /\ AllFrom(g1, 1, Len(g1) + 1, WS, FALSE)
    /\ g2 # <<>> /\ AllFrom(g2, 1, Len(g2) + 1, WS, FALSE)
    /\ \E i \in 1..Len(s) : \E e \in i..(Len(s) + 1) :
         /\ HeadIs(s, i, e, pattern.head)
         /\ \E k \in e..Len(s) :
              /\ StartsAt(s, k, g1 \o <<"/">> \o g2)
              /\ GapIs(s, e, k, pattern.rest)

\* some part of s has the form of the pattern
PatternOccurs(s, pattern) ==
    \E q \in { q \in 2..(Len(s) - 1) : s[q] = "/" } :
    \E k \in 1..(q - 1) :
      MatchesAs(s, pattern, SubSeq(s, k, q - 1), <<s[q + 1]>>)

\* the strategy's command was rejected, or what it printed has the form of
\* none of the strategy's patterns
Unmatched(output, patterns) ==
    output.ok =>
      \A n \in 1..Len(patterns) : ~PatternOccurs(output.text, patterns[n])

\* the result holds the groups of the first of the strategy's patterns that
\* occurs in what the command printed
ReturnedFrom(output, patterns) ==
    /\ output.ok
    /\ out.kind = "activity"
    /\ \E n \in 1..Len(patterns) :
         /\ \A m \in 1..(n - 1) : ~PatternOccurs(output.text, patterns[m])
         /\ MatchesAs(output.text, patterns[n], out.package, out.activity)

StrategyOrder == << WindowCommand, ActivitiesCommand, DisplaysCommand >>

ActivityFallback ==
    /\ Len(cmds) <= 3
    /\ cmds = SubSeq(StrategyOrder, 1, Len(cmds))
    /\ Len(cmds) >= 2 => Unmatched(inp.window, WindowPatterns)
    /\ Len(cmds) = 3 => Unmatched(inp.activities, ActivitiesPatterns)
    /\ pc = "call" => cmds = <<>> /\ out = NoResult
    /\ pc = "window" => Len(cmds) = 1 /\ out = NoResult
    /\ pc = "activities" => Len(cmds) = 2 /\ out = NoResult
    /\ pc = "displays" => Len(cmds) = 3 /\ out = NoResult
    /\ pc = "returned" =>
         CASE Len(cmds) = 1 -> ReturnedFrom(inp.window, WindowPatterns)
           [] Len(cmds) = 2 ->
                ReturnedFrom(inp.activities, ActivitiesPatterns)
           [] Len(cmds) = 3 -> ReturnedFrom(inp.displays, DisplaysPatterns)
           [] OTHER -> FALSE
    /\ pc = "error" =>
         /\ Len(cmds) = 3
         /\ Unmatched(inp.displays, DisplaysPatterns)
         /\ out = Thrown("Could not determine current activity")

\* once the call has returned or thrown it issues no command
NoCommandAfterReturn ==
    pc \in {"returned", "error"} => cmds' = cmds

\* C17: getCurrentActivity issues 'dumpsys window windows', 'dumpsys
\* activity activities', 'dumpsys window displays' in this order, a later
\* one only if every earlier command was rejected or printed nothing its
\* patterns match; the first pattern match is returned and no command
\* follows it; a rejected command is never propagated; the call throws
\* 'Could not determine current activity' only after all three.
C17_ActivityFallback == []ActivityFallback /\ [][NoCommandAfterReturn]_vars

\* the third strategy answers after the first command was rejected and the
\* second printed nothing that matches
C17_ThirdStrategyAnswers ==
    /\ pc = "returned"
    /\ Len(cmds) = 3
    /\ ~inp.window.ok
    /\ inp.activities.ok
    /\ out.package = <<"p">>

----------------------------------------------------------------------------
(* The tools that issue their commands one after the other. Of these      *)
(* commands the model keeps the name, and of tap_coordinates the           *)
(* arguments; of the replies it keeps that they are not errors.            *)

\* a step of a handler: the operation it awaits and what a failure of the
\* operation does: the handler throws, or goes on (a failure that is
\* caught, or an operation that cannot fail); a step inside try/finally
\* is guarded
AdbStep(command) == [op |-> command, throws |-> TRUE, guarded |-> FALSE]

HostStep(name) ==
    [op |-> [name |-> name, host |-> TRUE], throws |-> TRUE,
     guarded |-> FALSE]

Quiet(step) == [step EXCEPT !.throws = FALSE]

Guarded(step) == [step EXCEPT !.guarded = TRUE]

\* await rm(tmpDir, ...).catch(() => {}) of the finally block
CleanupStep == Quiet(HostStep("rm tmpDir"))

AnimationSettings ==
    << "window_animation_scale", "transition_animation_scale",
       "animator_duration_scale" >>

\* wait_ms ?? 500
DelayOf(wait_ms) == IF wait_ms = <<>> THEN 500 ELSE wait_ms[1]

\* record_screen before it has listed the directory of the frames
RecordingStart == [family |-> "recording", listed |-> <<>>]

\* the steps of a handler after resolveDevice, in order; i.listed holds
\* the numbers of frame files that the readdir calls of record_screen
\* have found so far: what follows a readdir is known when it completes
Script(r, i) ==
    CASE r.tool = "list_devices" -> << AdbStep(DevicesCommand) >>
      [] r.tool = "launch_app" ->
           << AdbStep([name |-> IF Falsy(r.args.activity) THEN "monkey"
                                ELSE "am start"]) >>
      [] r.tool = "screenshot" ->
           (IF DelayOf(r.args.wait_ms) > 0
            THEN << Quiet(HostStep("timer")) >> ELSE <<>>)
             \o << AdbStep([name |-> "screencap"]) >>
      [] r.tool = "record_screen" ->
           << HostStep("mkdtemp"),
              Guarded(AdbStep([name |-> "screenrecord"])),
              Guarded(AdbStep([name |-> "pull"])),
              Guarded(Quiet(AdbStep([name |-> "rm"]))),
              Guarded(Quiet(HostStep("ffmpeg"))),
              Guarded(HostStep("readdir")) >>
             \o (IF Len(i.listed) >= 1
                 THEN (IF i.listed[1] = 0
                       THEN << Guarded(Quiet(HostStep("ffmpeg"))) >>
                       ELSE <<>>)
                        \o << Guarded(HostStep("readdir")) >>
                 ELSE <<>>)
             \o (IF Len(i.listed) = 2
                 THEN SubSeq([k \in 1..MaxFrames |->
                                Guarded(HostStep("readFile"))],
                             1, i.listed[2])
                        \o << CleanupStep >>
                 ELSE <<>>)
      [] r.tool = "tap_coordinates" ->
           << AdbStep(TapCommand([x |-> r.args.x, y |-> r.args.y])) >>
      [] r.tool = "type_text" -> << AdbStep([name |-> "input text"]) >>
      [] r.tool = "press_key" -> << AdbStep([name |-> "keyevent"]) >>
      [] r.tool = "swipe" ->
           IF r.args.direction # <<>>
           THEN << AdbStep([name |-> "wm size"]),
                   AdbStep([name |-> "input swipe"]) >>
           ELSE IF \A c \in {"start_x", "start_y", "end_x", "end_y"} :
                     r.args[c] # <<>>
           THEN << AdbStep([name |-> "input swipe"]) >>
           ELSE <<>>
      [] r.tool = "set_animations" ->
           [k \in 1..6 |->
              AdbStep([name |-> IF k <= 3 THEN "settings get"
                                ELSE "settings put",
                       setting |-> AnimationSettings[((k - 1) % 3) + 1]])]

ScriptTools ==
    { "list_devices", "launch_app", "screenshot", "record_screen",
      "tap_coordinates", "type_text", "press_key", "swipe",
      "set_animations" }

\* the steps of the script the handler has begun: its operations but for
\* the command of resolveDevice
StepsBegun ==
    IF req.tool = "list_devices" THEN Len(cmds)
    ELSE IF Falsy(req.args.device_id) THEN Len(cmds) - 1
    ELSE Len(cmds)

\* `Tapped at (${x}, ${y})`
TappedAt(x, y) ==
    <<"T", "a", "p", "p", "e", "d", " ", "a", "t", " ", "(">>
      \o NumToStr(x) \o <<",", " ">> \o NumToStr(y) \o <<")">>

\* the reply of a tool whose steps are done
ScriptResult ==
    IF req.tool = "tap_coordinates"
    THEN TextResult("tap_coordinates", TappedAt(req.args.x, req.args.y))
    ELSE [kind |-> "result", isError |-> FALSE, format |-> req.tool]

\* what the handler has found once the operation it awaits has completed:
\* a readdir of record_screen yields a number of frame files; the second
\* listing is used as it comes, whatever the first one was
Readdir(i) ==
    IF /\ req.tool = "record_screen"
       /\ cmds # <<>>
       /\ cmds[Len(cmds)] = HostStep("readdir").op
    THEN { [i EXCEPT !.listed = Append(@, k)] : k \in 0..MaxFrames }
    ELSE { i }

\* the handler is at its first step: after resolveDevice, or at once in
\* list_devices
AtFirstStep ==
    /\ req.tool \in ScriptTools
    /\ IF req.tool = "list_devices" THEN pc = "request" ELSE pc = "call"

\* the first operation is started and the handler is suspended
ScriptStart ==
    /\ AtFirstStep
    /\ Script(req, inp) # <<>>
    /\ cmds' = Append(cmds, Script(req, inp)[1].op)
    /\ pc' = "command"
    /\ UNCHANGED <<inp, raw, xml, pos, stack, elements, heap, out, req,
                   session>>

\* swipe with neither a direction nor all four coordinates
SwipeNoCoordinates ==
    /\ AtFirstStep
    /\ Script(req, inp) = <<>>
    /\ out' = ErrorResult("no coordinates")
    /\ pc' = "replied"
    /\ UNCHANGED <<inp, raw, xml, pos, stack, elements, heap, cmds, req,
                   session>>

\* the operation has completed, or has failed without the handler
\* throwing: the next one is started
ScriptNext ==
    /\ pc = "command"
    /\ \E found \in Readdir(inp) :
         /\ StepsBegun < Len(Script(req, found))
         /\ inp' = found
         /\ cmds' = Append(cmds, Script(req, found)[StepsBegun + 1].op)
    /\ UNCHANGED <<raw, xml, pos, stack, elements, heap, pc, out, req,
                   session>>

\* the last operation has completed: the reply is built
ScriptDone ==
    /\ pc = "command"
    /\ Readdir(inp) = { inp }
    /\ StepsBegun = Len(Script(req, inp))
    /\ out' = ScriptResult
    /\ pc' = "replied"
    /\ UNCHANGED <<inp, raw, xml, pos, stack, elements, heap, cmds, req,
                   session>>

\* what a failed operation throws
Failure(op) ==
    Thrown(IF "host" \in DOMAIN op THEN "host failed" ELSE "adb failed")

\* the operation has failed and the handler throws: at once, or after the
\* finally block when the operation is inside the try
ScriptRejected ==
    /\ pc = "command"
    /\ \E step \in { Script(req, inp)[StepsBegun] } :
         /\ step.throws
         /\ out' = Failure(step.op)
         /\ IF step.guarded
            THEN pc' = "unwinding" /\ cmds' = Append(cmds, CleanupStep.op)
            ELSE pc' = "error" /\ cmds' = cmds
    /\ UNCHANGED <<inp, raw, xml, pos, stack, elements, heap, req, session>>

\* the finally block has run: the error is thrown on
ScriptUnwound ==
    /\ pc = "unwinding"
    /\ pc' = "error"
    /\ UNCHANGED <<inp, raw, xml, pos, stack, elements, heap, out, cmds, req,
                   session>>

\* get_current_activity after getCurrentActivity has returned
ActivityReply ==
    /\ pc = "returned"
    /\ req.tool = "get_current_activity"
    /\ out' = TextResult("activity",
                [package |-> out.package, activity |-> out.activity])
    /\ pc' = "replied"
    /\ UNCHANGED <<inp, raw, xml, pos, stack, elements, heap, cmds, req,
                   session>>

----------------------------------------------------------------------------
(* A session: requests arrive while the handlers of earlier ones are      *)
(* suspended, and a suspended handler goes on when its command completes, *)
(* in any order.                                                          *)

\* the arguments of a request that names its device
OnDevice == [device_id |-> <<vSerial>>]

TapArgs(text, index, device) ==
    [ resource_id |-> <<>>, text |-> text, content_desc |-> <<>>,
      index |-> index, device_id |-> device ]

HierarchyArgs(flat, compact, device) ==
    [ device_id |-> device, flat |-> flat, compact |-> compact,
      max_depth |-> <<>> ]

SwipeArgs(direction, start, end_y) ==
    [ direction |-> direction, start_x |-> start, start_y |-> start,
      end_x |-> start, end_y |-> end_y, device_id |-> <<vSerial>> ]

\* the requests of a session
SessionRequests ==
    { [tool |-> "tap_element", args |-> a] :
        a \in { TapArgs(<<vA>>, <<>>, <<>>),
                TapArgs(<<vA>>, <<[n |-> 1, half |-> FALSE]>>, <<vSerial>>),
                TapArgs(<<vD>>, <<>>, <<vSerial>>),
                TapArgs(<<>>, <<>>, <<vSerial>>) } }
      \cup
    { [tool |-> "get_ui_hierarchy", args |-> a] :
        a \in { HierarchyArgs(<<>>, <<>>, <<vSerial>>),
                HierarchyArgs(<<TRUE>>, <<FALSE>>, <<vSerial>>),
                HierarchyArgs(<<>>, <<FALSE>>, <<vSerial>>) } }
      \cup
    { [tool |-> "list_devices", args |-> <<>>],
      [tool |-> "get_current_activity", args |-> OnDevice],
      [tool |-> "launch_app", args |-> OnDevice @@ [activity |-> <<>>]],
      [tool |-> "launch_app", args |-> OnDevice @@ [activity |-> <<vA>>]],
      [tool |-> "screenshot", args |-> OnDevice @@ [wait_ms |-> <<>>]],
      [tool |-> "screenshot", args |-> OnDevice @@ [wait_ms |-> <<0>>]],
      [tool |-> "record_screen", args |-> OnDevice],
      [tool |-> "tap_coordinates",
       args |-> OnDevice @@ [x |-> NumOf(2), y |-> NumOf(1)]],
      [tool |-> "type_text", args |-> OnDevice],
      [tool |-> "press_key", args |-> OnDevice],
      [tool |-> "swipe", args |-> SwipeArgs(<<"up">>, <<>>, <<>>)],
      [tool |-> "swipe", args |-> SwipeArgs(<<>>, <<1>>, <<2>>)],
      [tool |-> "swipe", args |-> SwipeArgs(<<>>, <<1>>, <<>>)],
      [tool |-> "set_animations", args |-> OnDevice] }

\* what the device shows in the course of a session: one node, or three
SessionScreens == { i \in ServerInputs : Len(i.toks) \in {1, 4} }

\* the dump command has printed nothing: it has not completed, or it
\* completes with an empty output
NothingPrinted == Input("server", <<>>, <<>>, <<>>, <<>>, NoTrailer, <<>>)

\* what the three commands of getCurrentActivity do in a session: the
\* first one answers, the third one answers, none does
SessionActivities ==
    { i \in ActivityInputs :
        \/ /\ i.window = Printed(wFocus) /\ ~i.activities.ok /\ ~i.displays.ok
        \/ /\ ~i.window.ok /\ ~i.activities.ok
           /\ i.displays \in { Rejected, Printed(dFocused) } }

NoDeviceOutput == [family |-> "none"]

\* what the handler of a request is going to find: the answers to the
\* commands of getCurrentActivity; the text of a dump is known when the
\* dump command completes (DevicePrints), the frame files of record_screen
\* when its readdir does (Readdir)
DeviceFor(r) ==
    IF r.tool \in DumpTools THEN { NothingPrinted }
    ELSE IF r.tool = "get_current_activity" THEN SessionActivities
    ELSE IF r.tool = "record_screen" THEN { RecordingStart }
    ELSE { NoDeviceOutput }

\* a request as its handler finds it, with what the handler is going to
\* find
SessionStarts ==
    { [ req |-> r, inp |-> i,
        raw |-> IF i.family = "server" THEN DeviceOutput(i) ELSE <<>> ] :
        <<r, i>> \in UNION { {r} \X DeviceFor(r) : r \in SessionRequests } }

InitSession ==
    /\ \E s \in SessionStarts : ServerInit(s.req, s.inp)
    /\ session = NoSession

\* the handler at hand, with its locals and the commands it has issued
Context ==
    [ inp |-> inp, raw |-> raw, xml |-> xml, pos |-> pos, stack |-> stack,
      elements |-> elements, heap |-> heap, pc |-> pc, out |-> out,
      cmds |-> cmds, req |-> req ]

\* the handler is suspended at an await: of resolveDevice ("call"), or for
\* a command or an operation of the host to complete; once the callback
\* of the dump command has the text, the handler goes on before any other
\* does
Suspended ==
    /\ pc \in { "call", "listing", "await", "tapping", "command",
                "unwinding", "window", "activities", "displays" }
    /\ ~(pc = "await" /\ inp # NothingPrinted)

\* the handler has replied or thrown
Finished == pc \in {"replied", "error"}

\* the event loop is between two turns: no handler is running
BetweenTurns == Suspended \/ Finished

\* the suspended handlers, the one at hand included if it is suspended
AllSuspended ==
    IF Suspended THEN session.suspended (+) SetToBag({Context})
    ELSE session.suspended

\* a handler that goes on with the forest of the handler that ran last
ResumedSharedForest(h) == [h EXCEPT !.heap = heap, !.elements = elements]

\* a handler goes on with the locals it was suspended with
Resumed(h) == h

\* a request arrives and its handler is called
NewRequest ==
    /\ BetweenTurns
    /\ session.count < MaxRequests
    /\ session' = [count |-> session.count + 1, suspended |-> AllSuspended]
    /\ \E s \in SessionStarts :
         /\ inp' = s.inp
         /\ raw' = s.raw
         /\ req' = s.req
    /\ xml' = <<>>
    /\ pos' = 0
    /\ stack' = <<>>
    /\ elements' = <<>>
    /\ heap' = <<>>
    /\ pc' = "request"
    /\ out' = NoResult
    /\ cmds' = <<>>

\* the dump command of the handler completes: its callback is called with
\* what the device shows at that time
DevicePrints ==
    /\ pc = "await"
    /\ inp = NothingPrinted
    /\ \E s \in SessionScreens :
         /\ inp' = s
         /\ raw' = DeviceOutput(s)
    /\ UNCHANGED <<xml, pos, stack, elements, heap, pc, out, cmds, req,
                   session>>

\* the operation that a suspended handler awaits has completed: the event
\* loop takes up that handler
Resume ==
    /\ BetweenTurns
    /\ \E h \in BagToSet(session.suspended) :
         /\ session' = [session EXCEPT
                          !.suspended = AllSuspended (-) SetToBag({h})]
         /\ \E c \in { Resumed(h) } :
              /\ inp' = c.inp
              /\ raw' = c.raw
              /\ xml' = c.xml
              /\ pos' = c.pos
              /\ stack' = c.stack
              /\ elements' = c.elements
              /\ heap' = c.heap
              /\ pc' = c.pc
              /\ out' = c.out
              /\ cmds' = c.cmds
              /\ req' = c.req

NextSession ==
    \/ NewRequest
    \/ Resume
    \/ TapNoSelector
    \/ ResolveGiven
    \/ IssueDevices
    \/ ResolveListed
    \/ ResolveFails
    \/ IssueDump
    \/ DevicePrints
    \/ AdbReject
    \/ DumpUnexpected
    \/ DumpAccepted
    \/ ParseClose
    \/ ParseOpen
    \/ ParseReturn
    \/ HierarchyReply
    \/ TapNoMatch
    \/ TapAmbiguous
    \/ TapOutOfRange
    \/ TapIssue
    \/ TapSent
    \/ TapRejected
    \/ IssueWindow
    \/ TryWindow
    \/ TryActivities
    \/ TryDisplays
    \/ ActivityReply
    \/ ScriptStart
    \/ SwipeNoCoordinates
    \/ ScriptNext
    \/ ScriptDone
    \/ ScriptRejected
    \/ ScriptUnwound

SpecSession == InitSession /\ [][NextSession]_vars

\* the text [x,y][x+width,y+height] of a rectangle
TextOfRect(b) ==
    RectText(NumToStr(b.x), NumToStr(b.y),
             NumToStr(ExactAdd(b.x, b.width)),
             NumToStr(ExactAdd(b.y, b.height)))

\* the forest of the handler is that of the text printed for its own dump
\* command, token by token: a node for every node token, with the text
\* and the rectangle the token carries, under the node that was open
OwnForest ==
    /\ raw = DeviceOutput(inp)
    /\ inp # NothingPrinted
    /\ Len(heap) = NodeIdx(Len(Toks))
    /\ \A n \in Nodes :
         \E j \in { TokOfNode(n) } :
           /\ CarriesValue(Toks[j].attrs, nText, heap[n].text)
           /\ CarriesValue(Toks[j].attrs, nBounds, TextOfRect(heap[n].bounds))
           /\ IF RefParent(j) = 0
              THEN IsRoot(n) /\ HeapParents(n) = {}
              ELSE HeapParents(n) = {RefParent(j)} /\ ~IsRoot(n)

\* the reply is made of the forest of the handler
OwnReply ==
    CASE out.format = "json" -> out.value = Hierarchy
      [] out.format = "compact" ->
           out.value = TreeRef(LimitOf(req.args.max_depth,
                                       DefaultCompactDepth))
      [] out.format = "flat" ->
           /\ Len(out.value) = Len(heap)
           /\ \A pre \in { PreOrderRef } :
                \A i \in 1..Len(heap) : out.value[i] = FlatRef(pre[i])
      [] out.format = "tap" ->
           \E n \in Nodes :
             /\ out.value.element_found.text = heap[n].text
             /\ out.value.element_found.resource_id = heap[n].resource_id
             /\ TapCommands = << CenterArgs(heap[n].bounds) >>

\* nothing of a dump has reached the handler
NothingParsed ==
    xml = <<>> /\ pos = 0 /\ stack = <<>> /\ elements = <<>> /\ heap = <<>>

\* what each state of a handler shows of its one dump
DumpOncePerCall ==
    /\ DumpCount <= 1
    /\ req.tool \notin DumpTools => DumpCount = 0 /\ NothingParsed
    /\ (req.tool \in DumpTools /\ pc \in {"request", "listing", "call"}) =>
         DumpCount = 0 /\ inp = NothingPrinted /\ NothingParsed
    /\ pc = "await" =>
         DumpCount = 1 /\ cmds[Len(cmds)] = DumpCommand /\ NothingParsed
    /\ pc \in {"scan", "done", "tapping"} =>
         DumpCount = 1 /\ xml = CleanDump(raw) /\ raw = DeviceOutput(inp)
    /\ pc \in {"done", "tapping"} => OwnForest
    /\ ( /\ req.tool \in DumpTools
         /\ pc = "replied"
         /\ out # ErrorResult("no selector") ) =>
         /\ DumpCount = 1
         /\ OwnForest
         /\ ~out.isError => OwnReply
    /\ DumpFailed => DumpCount = 1 /\ NothingParsed

\* a rejected dump ends the call: nothing is parsed and no command
\* follows; the next step is another handler's
DumpFailureEndsCall ==
    /\ (pc = "await" /\ pc' = "error" /\ out' = Thrown("adb failed")) =>
         UNCHANGED <<cmds, xml, pos, stack, elements, heap>>
    /\ pc = "error" =>
         (pc' = "request" \/ Context' \in BagToSet(session.suspended))

\* C15: every call of getUiHierarchy issues the dump command exactly once
\* and returns the forest of that call's own output, never a forest or a
\* text another call left; a rejected dump command fails the call with
\* adb's error, with no retry, no other command and no parse.
C15_FreshDumpPerCall == []DumpOncePerCall /\ [][DumpFailureEndsCall]_vars

\* a request is answered with the forest of its own dump, of one node,
\* while the handler of an earlier request holds the forest of its own
\* dump, of three nodes, and waits for its tap command
C15_AnsweredWhileOtherAwaits ==
    /\ pc = "replied"
    /\ req.tool = "get_ui_hierarchy"
    /\ ~out.isError
    /\ out.format = "json"
    /\ Len(out.value.heap) = 1
    /\ \E h \in BagToSet(session.suspended) :
         h.pc = "tapping" /\ Len(h.heap) = 3

====
